---- MODULE Spec2Model ----
(***************************************************************************)
(* Conversation memory tiering (STB / LTM / Summary) and token-budget      *)
(* context assembly of the chat proxy (index.js, "final" variant).         *)
(*                                                                         *)
(* The persistent store is a Redis-style key space reached through the     *)
(* REST client: a list holds string items, RPUSH appends one item per      *)
(* argument (a non-string argument is sent as its JSON text), LRANGE /     *)
(* LTRIM / LLEN follow the Redis index rules, an emptied list is an absent *)
(* key.                                                                    *)
(*                                                                         *)
(* JavaScript values are records [k, e, m]:                                *)
(*   k = "entry"   an object carrying the ConversationEntry fields e       *)
(*   k = "array"   an array whose elements are m                           *)
(*   k = "object"  an object with index keys "0","1",.. holding m (what    *)
(*                 the spread {...x} of an array x produces); e keeps the  *)
(*                 named fields added afterwards (emb)                     *)
(*   k = "string"  a string holding the JSON text of the one value m[1]    *)
(*   k = "text"    a string that is not JSON                               *)
(***************************************************************************)
EXTENDS Integers, Sequences, FiniteSets, TLC

\* ------------------------------------------------------------------ bounds
MaxTurns == 2
MaxCap == 2
MaxList == 2
MaxTok == 3
MaxToolIndex == 1
MaxLines == 4
MaxBlocks == 2
MaxClients == 3
MaxSeconds == 70
MaxLimit == 2

\* ------------------------------------------------------- program constants
HISTORY_TTL_SECONDS == 2592000
SUMMARY_MAX_CHARS == 1600
FACT_MAX_CHARS == 220
FACT_MAX_LINES == 3
DEDUP_PREFIX_CHARS == 120
maxToolIterations == 6
WINDOW_SECONDS == 60
EXPIRE_SECONDS == 65

VARIABLES
  redis,              \* the key space: key -> [type, list, str, ttl]
  clock,              \* the last value Date.now() returned
  last,               \* outcome of the last request handled
  appended,           \* per STB key: entries appended since the key was last absent
  pre,                \* the key space as the last rollover run on its own found it
  STB_MAX_ITEMS, RECALL_TOP_K, LTM_SCAN_LIMIT, TOKEN_BUDGET, MAX_OUTPUT_TOKENS,
  OPENAI_API_KEY,     \* TRUE iff an embedding provider is configured
  bp,                 \* the running buildPrompt call (context assembler)
  run,                \* the chat requests handled one store command at a time
  sse,                \* the streamed /v1/messages response of the OpenAI proxy
  toolLoop,           \* the non-stream tool loop of /v1/chat/completions
  rl                  \* the per-minute rate limiter in front of /v1/complete

vars == <<redis, clock, last, appended, pre, STB_MAX_ITEMS, RECALL_TOP_K,
          LTM_SCAN_LIMIT, TOKEN_BUDGET, MAX_OUTPUT_TOKENS, OPENAI_API_KEY, bp, run,
          sse, toolLoop, rl>>

tunables == <<STB_MAX_ITEMS, RECALL_TOP_K, LTM_SCAN_LIMIT, TOKEN_BUDGET,
              MAX_OUTPUT_TOKENS, OPENAI_API_KEY>>

proxies == <<sse, toolLoop, rl>>

\* -------------------------------------------------------- sequence helpers
Min(a, b) == IF a <= b THEN a ELSE b
Max(a, b) == IF a >= b THEN a ELSE b

RECURSIVE Flatten(_)
Flatten(ss) == IF ss = <<>> THEN <<>> ELSE Head(ss) \o Flatten(Tail(ss))

RECURSIVE SumSeq(_)
SumSeq(ns) == IF ns = <<>> THEN 0 ELSE Head(ns) + SumSeq(Tail(ns))

Range(s) == {s[i] : i \in 1..Len(s)}

LastN(s, n) == SubSeq(s, Len(s) - Min(n, Len(s)) + 1, Len(s))
FirstN(s, n) == SubSeq(s, 1, Min(n, Len(s)))

IsSuffix(s, t) == Len(s) <= Len(t) /\ s = LastN(t, Len(s))
IsPrefix(s, t) == Len(s) <= Len(t) /\ s = FirstN(t, Len(s))

\* ------------------------------------------------------- JavaScript values
Undefined == "undefined"

NoFields == [role |-> Undefined, content |-> Undefined, ts |-> 0,
             locale |-> Undefined, emb |-> Undefined]

EntryObj(role, content, ts, locale) ==
  [k |-> "entry",
   e |-> [role |-> role, content |-> content, ts |-> ts, locale |-> locale,
          emb |-> Undefined],
   m |-> <<>>]

ArrayOf(elems) == [k |-> "array", e |-> NoFields, m |-> elems]

\* JSON.stringify(v): the JSON text of v, a string
JSONstringify(v) == [k |-> "string", e |-> NoFields, m |-> <<v>>]

\* JSON.parse(s) succeeds exactly on a string that holds JSON text
JSONparseThrows(s) == ~(s.k = "string" /\ Len(s.m) = 1)
JSONparse(s) == s.m[1]

\* {...x}: own enumerable properties of x copied into a fresh object
Spread(x) ==
  CASE x.k = "entry" -> x
    [] x.k = "array" -> [k |-> "object", e |-> NoFields, m |-> x.m]
    [] x.k = "object" -> x
    [] OTHER -> [k |-> "object", e |-> NoFields, m |-> <<>>]

\* x.role, x.content, x.emb of any value (undefined when the field is missing)
FieldRole(x) == x.e.role
FieldContent(x) == x.e.content
FieldEmb(x) == x.e.emb

\* String(x.content ?? '') and String(x.content || ''): same result on
\* strings and undefined
ContentText(x) == IF FieldContent(x) = Undefined THEN "" ELSE FieldContent(x)

\* -------------------------------------------------------------------- keys
\* Identifiers are character sequences; "a" stands for any ordinary
\* character and ":" is the separator the key templates use.
\* The (coreId, sessionId) pairs requests are made for.
Sessions == {<<<<"a">>, <<"a">>>>, <<<<"a">>, <<"a", ":", "a">>>>, <<<<"a", ":", "a">>, <<"a">>>>}

keySTB(coreId, sessionId) == <<"s", "t", "b", ":">> \o coreId \o <<":">> \o sessionId
keyLTM(coreId, sessionId) == <<"l", "t", "m", ":">> \o coreId \o <<":">> \o sessionId
keySUM(coreId, sessionId) == <<"s", "u", "m", ":">> \o coreId \o <<":">> \o sessionId

Keys == UNION {{keySTB(p[1], p[2]), keyLTM(p[1], p[2]), keySUM(p[1], p[2])} : p \in Sessions}
STBKeys == {keySTB(p[1], p[2]) : p \in Sessions}

\* ------------------------------------------------------------- the store
\* A key holds nothing (type "none"), a list of string items or a string;
\* ttl = 0 means no expiry is set.  A text is a sequence of lines.
Absent == [type |-> "none", list |-> <<>>, str |-> <<>>, ttl |-> 0]

\* TYPE key
type(r, key) == r[key].type

\* DEL key
del(r, key) == [r EXCEPT ![key] = Absent]

\* EXPIRE key seconds: no effect on an absent key
expire(r, key, seconds) ==
  IF r[key].type = "none" THEN r ELSE [r EXCEPT ![key].ttl = seconds]

\* the client sends a string argument as it is and any other argument as
\* its JSON text
Serialize(arg) == IF arg.k \in {"string", "text"} THEN arg ELSE JSONstringify(arg)

\* RPUSH key arg [arg ...]: one new item per argument, at the tail.  LRANGE
\* below gives the items back as the strings that were stored.
rpush(r, key, args) ==
  [r EXCEPT ![key] = [type |-> "list",
                      list |-> r[key].list \o [i \in 1..Len(args) |-> Serialize(args[i])],
                      str |-> <<>>,
                      ttl |-> r[key].ttl]]

\* Redis index rules shared by LRANGE and LTRIM: negative indexes count
\* from the tail, out-of-range indexes are clamped
NormStart(len, start) == IF start < 0 THEN Max(len + start, 0) ELSE start
NormStop(len, stop) == IF stop < 0 THEN len + stop ELSE Min(stop, len - 1)

Slice(items, start, stop) ==
  LET len == Len(items)
      a == NormStart(len, start)
      b == NormStop(len, stop)
  IN IF a > b \/ a >= len THEN <<>> ELSE SubSeq(items, a + 1, b + 1)

\* LRANGE key start stop
lrange(r, key, start, stop) == Slice(r[key].list, start, stop)

\* LTRIM key start stop: a list left empty is removed
ltrim(r, key, start, stop) ==
  LET kept == Slice(r[key].list, start, stop)
  IN IF r[key].type = "none" THEN r
     ELSE IF kept = <<>> THEN [r EXCEPT ![key] = Absent]
     ELSE [r EXCEPT ![key].list = kept]

\* LLEN key
llen(r, key) == Len(r[key].list)

\* GET key
get(r, key) == r[key]

\* SET key value: replaces the value and clears any expiry
set(r, key, text) ==
  [r EXCEPT ![key] = [type |-> "string", list |-> <<>>, str |-> text, ttl |-> 0]]

\* ------------------------------------------------------- storage helpers
ensureListKey(r, key) ==
  IF type(r, key) \notin {"none", "list"} THEN del(r, key) ELSE r

\* an append that replaces the list instead of extending it
appendList_overwrite(r, key, entries) ==
  IF Len(entries) = 0 THEN r
  ELSE LET r2 == rpush(del(r, key), key,
                       <<ArrayOf([i \in 1..Len(entries) |-> JSONstringify(entries[i])])>>)
       IN expire(r2, key, HISTORY_TTL_SECONDS)

\* rpush is called with ONE argument besides the key: the array of the
\* entries' JSON texts
appendList(r, key, entries) ==
  IF Len(entries) = 0 THEN r
  ELSE LET r1 == ensureListKey(r, key)
           r2 == rpush(r1, key,
                       <<ArrayOf([i \in 1..Len(entries) |-> JSONstringify(entries[i])])>>)
       IN expire(r2, key, HISTORY_TTL_SECONDS)

\* raw.map(JSON.parse or null).filter(Boolean); the values the program
\* stores are objects and arrays, which are truthy
ParsedOrDropped(raw) ==
  Flatten([i \in 1..Len(raw) |->
             IF JSONparseThrows(raw[i]) THEN <<>> ELSE <<JSONparse(raw[i])>>])

lrangeJSON(r, key, start, stop) ==
  ParsedOrDropped(lrange(ensureListKey(r, key), key, start, stop))

\* the store after lrangeJSON (ensureListKey may delete a non-list key)
lrangeJSONStore(r, key) == ensureListKey(r, key)

\* a trim that keeps one item too many
ltrimKeepLast_offByOne(r, key, maxItems) ==
  LET r1 == ensureListKey(r, key)
      r2 == ltrim(r1, key, 0 - (maxItems + 1), 0 - 1)
  IN expire(r2, key, HISTORY_TTL_SECONDS)

ltrimKeepLast(r, key, maxItems) ==
  LET r1 == ensureListKey(r, key)
      r2 == ltrim(r1, key, 0 - maxItems, 0 - 1)
  IN expire(r2, key, HISTORY_TTL_SECONDS)

readSummary(r, key) == IF get(r, key).type = "string" THEN get(r, key).str ELSE <<>>

writeSummary(r, key, text) ==
  expire(set(r, key, text), key, HISTORY_TTL_SECONDS)

\* ------------------------------------------------------- message contents
\* The texts requests and replies are drawn from.  A content is named by
\* its text; the tables give, per content, what the code computes from it.
Replies == {"", "ok"}

\* the request bodies: a message and a locale
Requests == {[content |-> "hi", locale |-> "uk"],
             [content |-> "my cat is tom", locale |-> "en"]}

\* content.split(/\n+/): every content here is a single line
ContentLines(c) == <<c>>

\* a word of 190 characters and a one-line message of 200 characters
LongWord == "xxxxxxxxxxxxxxxxxxxxxxxxxxxxxxxxxxxxxxxxxxxxxxxxxxxxxxxxxxxxxxxxxxxxxxxxxxxxxxxxxxxxxxxxxxxxxxxxxxxxxxxxxxxxxxxxxxxxxxxxxxxxxxxxxxxxxxxxxxxxxxxxxxxxxxxxxxxxxxxxxxxxxxxxxxxxxxxxxxxxxxxxxxxxxx"
LongFact == "my dog is xxxxxxxxxxxxxxxxxxxxxxxxxxxxxxxxxxxxxxxxxxxxxxxxxxxxxxxxxxxxxxxxxxxxxxxxxxxxxxxxxxxxxxxxxxxxxxxxxxxxxxxxxxxxxxxxxxxxxxxxxxxxxxxxxxxxxxxxxxxxxxxxxxxxxxxxxxxxxxxxxxxxxxxxxxxxxxxxxxxxxxxxxxxxxx"

\* the number of characters of a line
Chars(c) ==
  CASE c = "" -> 0
    [] c = "hi" -> 2
    [] c = "ok" -> 2
    [] c = "my cat is tom" -> 13
    [] c = LongFact -> 200

\* /(^i\s(am|work|live|prefer|use)\b)|(\bmy\s[a-z]+)/i.test(c) || /\b(is|=|:)\b/.test(c)
MatchesFactPattern(c) == c \in {"my cat is tom", LongFact}

\* new Set(String(c).toLowerCase().split(/\W+/).filter(Boolean))
Tokens(c) ==
  CASE c = "" -> {}
    [] c = "hi" -> {"hi"}
    [] c = "ok" -> {"ok"}
    [] c = "my cat is tom" -> {"my", "cat", "is", "tom"}
    [] c = LongFact -> {"my", "dog", "is", LongWord}

\* content.slice(0, 120): a content of at most 120 characters is its own
\* prefix
Prefix120(c) == IF Chars(c) <= DEDUP_PREFIX_CHARS THEN c ELSE <<c, DEDUP_PREFIX_CHARS>>

\* ------------------------------------------------------------------ texts
\* A text is the sequence of its lines; a line is [t, n, b]: the words t,
\* the number n of characters it has (bullet included) and whether it
\* starts with the bullet "- ".  The empty string is <<>>.
EmptyLine == [t |-> "", n |-> 0, b |-> FALSE]
Line(t, n) == [t |-> t, n |-> n, b |-> FALSE]
Bullet(t, n) == [t |-> t, n |-> n + 2, b |-> TRUE]

AsLines(text) == IF text = <<>> THEN <<EmptyLine>> ELSE text
Canon(lines) == IF lines = <<EmptyLine>> THEN <<>> ELSE lines

\* a + "\n" + b
JoinNL(a, b) == Canon(AsLines(a) \o AsLines(b))

TextLen(text) ==
  IF text = <<>> THEN 0
  ELSE SumSeq([i \in 1..Len(text) |-> text[i].n]) + Len(text) - 1

\* the first k characters of the lines
RECURSIVE TakeChars(_, _)
TakeChars(lines, k) ==
  IF lines = <<>> THEN <<>>
  ELSE LET h == Head(lines)
       IN IF k = 0 THEN <<EmptyLine>>
          ELSE IF h.n >= k THEN <<[h EXCEPT !.n = k]>>
          ELSE IF Tail(lines) = <<>> THEN <<h>>
          ELSE <<h>> \o TakeChars(Tail(lines), k - h.n - 1)

\* a slice that cuts nothing
TextSlice_noCut(text, k) == text

\* text.slice(0, k)
TextSlice(text, k) == IF k = 0 THEN <<>> ELSE Canon(TakeChars(text, k))

\* text.trim(): the lines of the texts here carry no blanks at their ends,
\* so trimming removes the empty lines at both ends
RECURSIVE DropLeadingEmpty(_)
DropLeadingEmpty(lines) ==
  IF lines # <<>> /\ Head(lines).n = 0 THEN DropLeadingEmpty(Tail(lines)) ELSE lines

RECURSIVE DropTrailingEmpty(_)
DropTrailingEmpty(lines) ==
  IF lines # <<>> /\ lines[Len(lines)].n = 0
  THEN DropTrailingEmpty(SubSeq(lines, 1, Len(lines) - 1)) ELSE lines

TextTrim(text) == DropTrailingEmpty(DropLeadingEmpty(text))

\* ---------------------------------------------------- summary (heuristic)
SummaryHead ==
  <<Line("Memory state (concise facts from earlier context):", 50),
    Bullet("(none yet)", 10)>>

\* the fact lines one entry contributes: add(c) for each of its first three
\* lines that matches a pattern, is not blank and has at most 220 characters
FactsOfEntry(e) ==
  IF FieldRole(e) # "user" THEN <<>>
  ELSE LET cs == FirstN(ContentLines(ContentText(e)), FACT_MAX_LINES)
       IN Flatten([i \in 1..Len(cs) |->
                     IF MatchesFactPattern(cs[i]) /\ Chars(cs[i]) > 0
                        /\ Chars(cs[i]) <= FACT_MAX_CHARS
                     THEN <<Bullet(cs[i], Chars(cs[i]))>> ELSE <<>>])

\* the fact lines of the entries, in order
FactLines(entries) == Flatten([i \in 1..Len(entries) |-> FactsOfEntry(entries[i])])

\* `merged`: the previous summary (or the head) followed by the new
\* observations, before it is cut
MergedText(prevSummary, entries) ==
  LET facts == FactLines(entries)
      first == IF prevSummary # <<>> THEN TextTrim(prevSummary) ELSE SummaryHead
  IN IF facts = <<>> THEN first
     ELSE JoinNL(first, <<EmptyLine, Line("# New observations:", 19)>> \o facts)

\* a merge that starts from the head every time
updateSummaryHeuristic_fromScratch(prevSummary, entries) ==
  TextSlice(MergedText(<<>>, entries), SUMMARY_MAX_CHARS)

updateSummaryHeuristic(prevSummary, entries) ==
  TextSlice(MergedText(prevSummary, entries), SUMMARY_MAX_CHARS)

maybeRefreshSummary(r, coreId, sessionId, recentEntries) ==
  LET prev == readSummary(r, keySUM(coreId, sessionId))
      next == updateSummaryHeuristic(prev, recentEntries)
  IN IF next # prev THEN writeSummary(r, keySUM(coreId, sessionId), next) ELSE r

\* ------------------------------------------------------------- embeddings
\* What one call of the embedding provider can give: an error response
\* ("throw"), no vector ("null") or a vector.  Vectors have unit length.
Vectors == {"v1", "v2"}
EmbOutcomes == {"throw", "null"} \cup Vectors

Vec(v) == IF v = "v1" THEN <<1, 0>> ELSE <<0, 1>>

\* the value of `emb` after  try { emb = await embedText(..) } catch {}
\* (null when no provider is configured, when it fails or gives no vector)
embedText(hasKey, outcome) ==
  IF ~hasKey THEN "null" ELSE IF outcome = "throw" THEN "null" ELSE outcome

\* A score is the number n/d (d > 0) plus eps infinitesimal parts: the
\* 1e-12 in the denominator of cosineSim pulls a non-zero cosine toward 0.
ISqrt(x) == CHOOSE q \in 0..x : q * q = x
Sign(x) == IF x > 0 THEN 1 ELSE IF x < 0 THEN 0 - 1 ELSE 0

cosineSim(a, b) ==
  LET n == Min(Len(a), Len(b))
      dot == SumSeq([i \in 1..n |-> a[i] * b[i]])
      na == SumSeq([i \in 1..n |-> a[i] * a[i]])
      nb == SumSeq([i \in 1..n |-> b[i] * b[i]])
  IN IF na = 0 \/ nb = 0 THEN [n |-> 0, d |-> 1, eps |-> 0]
     ELSE [n |-> dot, d |-> ISqrt(na) * ISqrt(nb), eps |-> 0 - Sign(dot)]

keywordScore(q, doc) ==
  LET qT == Tokens(q)
      dT == Tokens(doc)
      inter == Cardinality(qT \cap dT)
      qn == IF Cardinality(qT) = 0 THEN 1 ELSE Cardinality(qT)
      dn == IF Cardinality(dT) = 0 THEN 1 ELSE Cardinality(dT)
  IN [n |-> inter, d |-> ISqrt(qn * dn), eps |-> 0]

ScoreGreater(a, b) ==
  \/ a.n * b.d > b.n * a.d
  \/ a.n * b.d = b.n * a.d /\ a.eps > b.eps

\* scored.sort((a, b) => b.score - a.score): descending and stable
RECURSIVE InsertByScore(_, _)
InsertByScore(sorted, x) ==
  IF sorted = <<>> THEN <<x>>
  ELSE IF ScoreGreater(x.score, Head(sorted).score) THEN <<x>> \o sorted
  ELSE <<Head(sorted)>> \o InsertByScore(Tail(sorted), x)

RECURSIVE SortByScore(_)
SortByScore(scored) ==
  IF scored = <<>> THEN <<>>
  ELSE InsertByScore(SortByScore(SubSeq(scored, 1, Len(scored) - 1)),
                     scored[Len(scored)])

\* ------------------------------------------------------- recall from LTM
\* a key that leaves the role out
DedupKey_contentOnly(e) == <<Prefix120(FieldContent(e))>>

DedupKey(e) == <<FieldRole(e), Prefix120(FieldContent(e))>>

\* the dedup loop: keeps the first entry of every key
RECURSIVE Dedup(_, _)
Dedup(top, seen) ==
  IF top = <<>> THEN <<>>
  ELSE IF DedupKey(Head(top)) \in seen THEN Dedup(Tail(top), seen)
  ELSE <<Head(top)>> \o Dedup(Tail(top), seen \cup {DedupKey(Head(top))})

\* a scoring that takes the cosine whenever the entry stores a vector, with
\* an empty query vector when there is none
ScoreOf_cosineWheneverStored(qEmb, userMsg, e) ==
  IF FieldEmb(e) \in Vectors
  THEN IF qEmb # "null" THEN cosineSim(Vec(qEmb), Vec(FieldEmb(e))) ELSE cosineSim(<<>>, <<>>)
  ELSE keywordScore(userMsg, ContentText(e))

\* (qEmb && Array.isArray(e.emb)) ? cosineSim(qEmb, e.emb) : keywordScore(userMsg, content)
ScoreOf(qEmb, userMsg, e) ==
  IF qEmb # "null" /\ FieldEmb(e) \in Vectors
  THEN cosineSim(Vec(qEmb), Vec(FieldEmb(e)))
  ELSE keywordScore(userMsg, ContentText(e))

\* result [throws, out]: e.content.slice throws a TypeError on a value that
\* has no content field
recallFromLTM(r, coreId, sessionId, userMsg, qOutcome) ==
  LET all == lrangeJSON(r, keyLTM(coreId, sessionId), 0 - LTM_SCAN_LIMIT, 0 - 1)
      qEmb == embedText(OPENAI_API_KEY, qOutcome)
      scored == [i \in 1..Len(all) |->
                   [score |-> ScoreOf(qEmb, userMsg, all[i]), entry |-> all[i]]]
      sorted == SortByScore(scored)
      top == [i \in 1..Min(RECALL_TOP_K, Len(sorted)) |-> sorted[i].entry]
  IN IF all = <<>> THEN [throws |-> FALSE, out |-> <<>>]
     ELSE IF \E i \in 1..Len(top) : FieldContent(top[i]) = Undefined
          THEN [throws |-> TRUE, out |-> <<>>]
     ELSE [throws |-> FALSE, out |-> Dedup(top, {})]

\* --------------------------------------------------- STB -> LTM rollover
\* item = {...e}; item.emb = emb when the provider gave a vector
Enrich(e, emb) ==
  LET item == Spread(e) IN IF emb # "null" THEN [item EXCEPT !.e.emb = emb] ELSE item

\* a rollover that an embedding failure interrupts: STB is trimmed already,
\* nothing reaches LTM
rolloverSTBIfNeeded_abortOnFailure(r, coreId, sessionId, embs) ==
  LET k == keySTB(coreId, sessionId)
      r1 == ensureListKey(r, k)
      len == llen(r1, k)
      toMove == lrangeJSON(r1, k, 0, len - STB_MAX_ITEMS - 1)
      r2 == ltrimKeepLast(r1, k, STB_MAX_ITEMS)
      enriched == [i \in 1..Len(toMove) |->
                     Enrich(toMove[i], embedText(OPENAI_API_KEY, embs[i]))]
  IN IF len <= STB_MAX_ITEMS THEN r1
     ELSE IF OPENAI_API_KEY /\ \E i \in 1..Len(toMove) : embs[i] = "throw" THEN r2
     ELSE appendList(r2, keyLTM(coreId, sessionId), enriched)

\* embs[i]: what the provider gives for the i-th entry moved
rolloverSTBIfNeeded(r, coreId, sessionId, embs) ==
  LET k == keySTB(coreId, sessionId)
      r1 == ensureListKey(r, k)
      len == llen(r1, k)
      excess == len - STB_MAX_ITEMS
      toMove == lrangeJSON(r1, k, 0, excess - 1)
      r2 == ltrimKeepLast(r1, k, STB_MAX_ITEMS)
      enriched == [i \in 1..Len(toMove) |->
                     Enrich(toMove[i], embedText(OPENAI_API_KEY, embs[i]))]
  IN IF len <= STB_MAX_ITEMS THEN r1
     ELSE appendList(r2, keyLTM(coreId, sessionId), enriched)

\* the number of embedding calls a rollover makes on store r
RolloverCalls(r, coreId, sessionId) ==
  LET k == keySTB(coreId, sessionId)
      len == llen(ensureListKey(r, k), k)
  IN IF len <= STB_MAX_ITEMS \/ ~OPENAI_API_KEY THEN 0
     ELSE Len(lrangeJSON(ensureListKey(r, k), k, 0, len - STB_MAX_ITEMS - 1))

\* ------------------------------------------------- sessions already stored
\* Stores a request can find: the lists hold items of the canonical shape
\* (one entry per item) and of the shape appendList gives a turn.
SomeSession == <<<<"a">>, <<"a">>>>

StoredItems ==
  {JSONstringify(EntryObj("user", "hi", 1, "uk")),
   JSONstringify([EntryObj("assistant", "ok", 2, "uk") EXCEPT !.e.emb = "v1"]),
   Serialize(ArrayOf(<<JSONstringify(EntryObj("user", "my cat is tom", 3, "en")),
                       JSONstringify(EntryObj("assistant", "", 4, "en"))>>))}

ListsUpTo(n) == UNION {[1..m -> StoredItems] : m \in 0..n}

ListValue(items) ==
  IF items = <<>> THEN Absent
  ELSE [type |-> "list", list |-> items, str |-> <<>>, ttl |-> HISTORY_TTL_SECONDS]

StringValue(text) ==
  IF text = <<>> THEN Absent
  ELSE [type |-> "string", list |-> <<>>, str |-> text, ttl |-> HISTORY_TTL_SECONDS]

StoreWith(stb, ltm, summary) ==
  [key \in Keys |->
     IF key = keySTB(SomeSession[1], SomeSession[2]) THEN ListValue(stb)
     ELSE IF key = keyLTM(SomeSession[1], SomeSession[2]) THEN ListValue(ltm)
     ELSE IF key = keySUM(SomeSession[1], SomeSession[2]) THEN StringValue(summary)
     ELSE Absent]

\* the longest STB a finished turn leaves (the trim keeps everything when
\* STB_MAX_ITEMS is 0)
RestLength == IF STB_MAX_ITEMS = 0 THEN MaxList ELSE Min(STB_MAX_ITEMS, MaxList)

\* ------------------------------------------------ what a list item carries
\* the ConversationEntry objects inside a value, in order, whatever the
\* nesting (string holding JSON, array, object with index keys)
RECURSIVE EntriesIn(_)
EntriesIn(v) ==
  CASE v.k = "entry" -> <<v>>
    [] v.k = "text" -> <<>>
    [] OTHER -> Flatten([i \in 1..Len(v.m) |-> EntriesIn(v.m[i])])

EntriesOfList(items) == Flatten([i \in 1..Len(items) |-> EntriesIn(items[i])])

WithoutEmb(entries) == [i \in 1..Len(entries) |-> [entries[i] EXCEPT !.e.emb = Undefined]]

\* the entries `key` carries, embeddings left aside
Carried(r, key) == WithoutEmb(EntriesOfList(r[key].list))

\* a list item is canonical when it is the JSON text of one entry object
IsCanonicalItem(item) == ~JSONparseThrows(item) /\ JSONparse(item).k = "entry"

\* ------------------------------------------- build prompt under budget
\* The system text is the sequence of its blocks: base prompt, locale line,
\* summary block, recalled block; an empty block adds nothing to the text.
Block(b, locale, text, lines) == [b |-> b, locale |-> locale, text |-> text, lines |-> lines]

\* `${SYSTEM_PROMPT_BASE}\nLocale: ${locale}${summaryBlock}${recalledBlock}`
SystemText(locale, summaryBlock, recalledBlock) ==
  <<Block("base", "", <<>>, <<>>), Block("locale", locale, <<>>, <<>>)>>
    \o (IF summaryBlock = <<>> THEN <<>> ELSE <<Block("summary", "", summaryBlock, <<>>)>>)
    \o (IF recalledBlock = <<>> THEN <<>> ELSE <<Block("recalled", "", <<>>, recalledBlock)>>)

\* the lines `- ${e.role}: ${e.content}` of the recalled block
RecalledLines(recalled) ==
  [i \in 1..Len(recalled) |->
     [role |-> FieldRole(recalled[i]), content |-> FieldContent(recalled[i])]]

toAnthropicMessage(item) ==
  [role |-> IF FieldRole(item) = "assistant" THEN "assistant" ELSE "user",
   text |-> ContentText(item)]

\* a payload whose messages leave the new user entry out
MessagesOf_withoutUser(items, userEntry) ==
  [i \in 1..Len(items) |-> toAnthropicMessage(items[i])]

MessagesOf(items, userEntry) ==
  [i \in 1..Len(items) |-> toAnthropicMessage(items[i])] \o <<toAnthropicMessage(userEntry)>>

FitsBudget(tokens) == tokens + MAX_OUTPUT_TOKENS <= TOKEN_BUDGET

\* the state of a buildPrompt call: pc is the countTokens call it waits at
\* ("full", "trim", "norecall") or how it ended ("done", "failed"); trace
\* lists the candidates counted so far with the oracle's answers, steps the
\* degradations made
Idle ==
  [pc |-> "idle", stb |-> <<>>, work |-> <<>>, summaryBlock |-> <<>>,
   recalledBlock |-> <<>>, locale |-> "", userEntry |-> EntryObj("", "", 0, ""),
   system |-> <<>>, messages |-> <<>>, tokens |-> 0,
   trace |-> <<>>, steps |-> 0]

\* lines 319-328: the reads, the fullest candidate, up to the first count
buildPromptStart(r, coreId, sessionId, locale, userEntry, qOutcome) ==
  LET stb == lrangeJSON(r, keySTB(coreId, sessionId), 0, 0 - 1)
      r1 == lrangeJSONStore(r, keySTB(coreId, sessionId))
      summary == readSummary(r1, keySUM(coreId, sessionId))
      rec == recallFromLTM(r1, coreId, sessionId, FieldContent(userEntry), qOutcome)
      recalledBlock == RecalledLines(rec.out)
  IN IF rec.throws THEN [Idle EXCEPT !.pc = "failed"]
     ELSE [Idle EXCEPT !.pc = "full", !.stb = stb, !.work = stb,
                       !.summaryBlock = summary, !.recalledBlock = recalledBlock,
                       !.locale = locale, !.userEntry = userEntry,
                       !.system = SystemText(locale, summary, recalledBlock),
                       !.messages = MessagesOf(stb, userEntry)]

\* lines 344-347: drop the summary block when still over budget, return
FinishPrompt_keepSummary(b) == [b EXCEPT !.pc = "done"]

FinishPrompt(b) ==
  IF ~FitsBudget(b.tokens) /\ b.summaryBlock # <<>>
  THEN [b EXCEPT !.pc = "done", !.steps = @ + 1,
                 !.system = SystemText(b.locale, <<>>, <<>>)]
  ELSE [b EXCEPT !.pc = "done"]

\* lines 340-343: drop the recalled block when still over budget and count
AfterTrimLoop(b) ==
  IF ~FitsBudget(b.tokens) /\ b.recalledBlock # <<>>
  THEN [b EXCEPT !.pc = "norecall", !.steps = @ + 1,
                 !.system = SystemText(b.locale, b.summaryBlock, <<>>)]
  ELSE FinishPrompt(b)

\* a loop that removes the newest entry instead of the oldest
TrimLoop_newestFirst(b) ==
  IF Len(b.work) > 0
  THEN [b EXCEPT !.pc = "trim", !.steps = @ + 1,
                 !.work = SubSeq(b.work, 1, Len(b.work) - 1),
                 !.messages = MessagesOf(SubSeq(b.work, 1, Len(b.work) - 1), b.userEntry)]
  ELSE AfterTrimLoop(b)

\* lines 333-336: while (work.length > 0) { work.shift(); ...; count }
TrimLoop(b) ==
  IF Len(b.work) > 0
  THEN [b EXCEPT !.pc = "trim", !.steps = @ + 1, !.work = Tail(b.work),
                 !.messages = MessagesOf(Tail(b.work), b.userEntry)]
  ELSE AfterTrimLoop(b)

\* the code that runs when countTokens answers t, up to the next call or
\* the return
OnCount(b, t) ==
  LET c == [b EXCEPT !.tokens = t,
                     !.trace = @ \o <<[system |-> b.system, messages |-> b.messages,
                                       tokens |-> t]>>]
  IN CASE b.pc = "full" -> IF FitsBudget(t) THEN [c EXCEPT !.pc = "done"] ELSE TrimLoop(c)
       [] b.pc = "trim" -> IF FitsBudget(t) THEN AfterTrimLoop(c) ELSE TrimLoop(c)
       [] b.pc = "norecall" -> FinishPrompt(c)

\* the minimal payload: base prompt and locale, the new user entry alone
IsMinimalPayload(b, system, messages) ==
  /\ system = SystemText(b.locale, <<>>, <<>>)
  /\ messages = <<toAnthropicMessage(b.userEntry)>>

\* GET /debug/tokens or the first part of POST /chat: buildPrompt begins
BPStart(coreId, sessionId, req, qOutcome) ==
  /\ bp.pc = "idle"
  /\ bp' = buildPromptStart(redis, coreId, sessionId, req.locale,
                            EntryObj("user", req.content, clock + 1, req.locale),
                            qOutcome)
  /\ redis' = lrangeJSONStore(lrangeJSONStore(redis, keySTB(coreId, sessionId)),
                              keyLTM(coreId, sessionId))
  /\ clock' = clock + 1
  /\ UNCHANGED <<last, appended, pre, tunables, proxies, run>>

\* the token oracle answers t for the candidate buildPrompt waits on
BPCount(t) ==
  /\ bp.pc \in {"full", "trim", "norecall"}
  /\ bp' = OnCount(bp, t)
  /\ UNCHANGED <<redis, clock, last, appended, pre, tunables, proxies, run>>

\* count_tokens answers with a non-success status: buildPrompt raises
BPCountFails ==
  /\ bp.pc \in {"full", "trim", "norecall"}
  /\ bp' = [bp EXCEPT !.pc = "failed"]
  /\ UNCHANGED <<redis, clock, last, appended, pre, tunables, proxies, run>>

\* ------------------------------------------------------------ chat handler
NoRequest == [kind |-> "none", status |-> 0, session |-> <<>>, entries |-> <<>>,
              stbBefore |-> <<>>, input |-> <<>>]

\* what is kept of a request: its route, the status of the response and,
\* for a successful chat turn, its session, the two entries it made and the
\* entries STB carried when it began; for a helper run on its own, the
\* inputs it was given
Outcome(kind, status) == [NoRequest EXCEPT !.kind = kind, !.status = status]

\* the persistence sequence of a successful turn, in the handler's order
Persist(r, coreId, sessionId, userEntry, assistantEntry, embs) ==
  LET r1 == appendList(r, keySTB(coreId, sessionId), <<userEntry, assistantEntry>>)
      r2 == ltrimKeepLast(r1, keySTB(coreId, sessionId), STB_MAX_ITEMS)
      r3 == rolloverSTBIfNeeded(r2, coreId, sessionId, embs)
  IN maybeRefreshSummary(r3, coreId, sessionId, <<userEntry, assistantEntry>>)

\* the store as the rollover of this turn finds it
BeforeRollover(r, coreId, sessionId, userEntry, assistantEntry) ==
  ltrimKeepLast(appendList(r, keySTB(coreId, sessionId), <<userEntry, assistantEntry>>),
                keySTB(coreId, sessionId), STB_MAX_ITEMS)

\* the store after the reads buildPrompt makes (lrangeJSON on STB and on LTM)
PromptReadsStore(r, coreId, sessionId) ==
  lrangeJSONStore(lrangeJSONStore(r, keySTB(coreId, sessionId)), keyLTM(coreId, sessionId))

\* the reads buildPrompt makes before the ladder; they raise an error when
\* recall does
PromptReadsThrow(r, coreId, sessionId, content, qOutcome) ==
  recallFromLTM(lrangeJSONStore(r, keySTB(coreId, sessionId)),
                coreId, sessionId, content, qOutcome).throws

\* what the embedding provider gives on each of n calls; no call is made
\* without a provider
EmbChoices(n) ==
  IF OPENAI_API_KEY THEN [1..n -> EmbOutcomes] ELSE {[i \in 1..n |-> "null"]}

\* POST /chat, the request succeeds: prompt built, completion obtained,
\* both entries persisted, summary refreshed
ChatTurn(coreId, sessionId, req, reply) ==
  /\ bp.pc = "idle"
  /\ clock + 2 <= 2 * MaxTurns
  /\ \E q \in EmbChoices(1) :
       ~PromptReadsThrow(redis, coreId, sessionId, req.content, q[1])
  /\ LET userEntry == EntryObj("user", req.content, clock + 1, req.locale)
         assistantEntry == EntryObj("assistant", reply, clock + 2, req.locale)
         r0 == PromptReadsStore(redis, coreId, sessionId)
         n == RolloverCalls(BeforeRollover(r0, coreId, sessionId, userEntry, assistantEntry),
                            coreId, sessionId)
     IN \E embs \in EmbChoices(n) :
          /\ redis' = Persist(r0, coreId, sessionId, userEntry, assistantEntry, embs)
          /\ appended' = [appended EXCEPT ![keySTB(coreId, sessionId)] =
                            @ \o <<userEntry, assistantEntry>>]
          /\ last' = [kind |-> "chat", status |-> 200, session |-> <<coreId, sessionId>>,
                       entries |-> <<userEntry, assistantEntry>>,
                       stbBefore |-> Carried(redis, keySTB(coreId, sessionId)),
                       input |-> <<>>]
  /\ clock' = clock + 2
  /\ UNCHANGED <<pre, tunables, proxies, bp, run>>

\* POST /chat with core_id, session_id or the message missing
ChatBadRequest ==
  /\ bp.pc = "idle"
  /\ last' = Outcome("chat", 400)
  /\ UNCHANGED <<redis, clock, appended, pre, tunables, proxies, bp, run>>

\* POST /chat, buildPrompt raises (recall or the token oracle): the handler
\* rejects and nothing is persisted
ChatPromptError(coreId, sessionId) ==
  /\ bp.pc = "idle"
  /\ last' = Outcome("chat", 500)
  /\ redis' = lrangeJSONStore(redis, keySTB(coreId, sessionId))
  /\ UNCHANGED <<clock, appended, pre, tunables, proxies, bp, run>>

\* POST /chat, the completion provider answers with a non-success status
ChatUpstreamError(coreId, sessionId, req) ==
  /\ bp.pc = "idle"
  /\ \E q \in EmbChoices(1) :
       ~PromptReadsThrow(redis, coreId, sessionId, req.content, q[1])
  /\ last' = Outcome("chat", 502)
  /\ redis' = PromptReadsStore(redis, coreId, sessionId)
  /\ UNCHANGED <<clock, appended, pre, tunables, proxies, bp, run>>

\* POST /purge
Purge(coreId, sessionId) ==
  /\ bp.pc = "idle"
  /\ redis' = del(del(del(redis, keySTB(coreId, sessionId)), keyLTM(coreId, sessionId)),
                  keySUM(coreId, sessionId))
  /\ appended' = [appended EXCEPT ![keySTB(coreId, sessionId)] = <<>>]
  /\ last' = [Outcome("purge", 200) EXCEPT !.session = <<coreId, sessionId>>]
  /\ UNCHANGED <<clock, pre, tunables, proxies, bp, run>>

\* POST /purge with core_id or session_id missing
PurgeBadRequest ==
  /\ bp.pc = "idle"
  /\ last' = Outcome("purge", 400)
  /\ UNCHANGED <<redis, clock, appended, pre, tunables, proxies, bp, run>>

\* rolloverSTBIfNeeded run on its own, no other writer
Rollover(coreId, sessionId) ==
  /\ last.kind = "none"
  /\ pre' = redis
  /\ \E embs \in EmbChoices(RolloverCalls(redis, coreId, sessionId)) :
       /\ redis' = rolloverSTBIfNeeded(redis, coreId, sessionId, embs)
       /\ last' = [Outcome("rollover", 200) EXCEPT !.session = <<coreId, sessionId>>,
                                                   !.input = embs]
  /\ UNCHANGED <<clock, appended, tunables, proxies, bp, run>>

\* ----------------------------------------------------------- specification
MaxTopK == 1

\* ------------------------------------------- the other handlers, at rest
\* the block indexes an upstream tool call may carry
ToolIndexes == 0..MaxToolIndex

\* /v1/messages before the upstream stream is read: the locals of the
\* handler and the events written to the client so far
NoStream ==
  [pc |-> "idle", isSucceeded |-> FALSE, textBlockStarted |-> FALSE,
   encounteredToolCall |-> FALSE,
   toolCallAccumulators |-> [idx \in ToolIndexes |-> [defined |-> FALSE, args |-> <<>>]],
   sent |-> <<>>, read |-> 0]

\* /v1/chat/completions before its non-stream branch runs
NoLoop ==
  [pc |-> "idle", toolsEnabled |-> FALSE, i |-> 0, calls |-> 0, toolCalls |-> 0,
   wanted |-> FALSE, convo |-> <<>>, finalText |-> <<>>, text |-> <<>>]

\* the client addresses (req.ip); "" is a request without one
IPs == {"10.0.0.1", ""}

\* rl:${hash(ip || "unknown")}:${Math.floor(Date.now()/60000)}, the time in
\* seconds; the digests of the two addresses differ
RateKey(ip, now) == <<IF ip = "" THEN "unknown" ELSE ip, now \div WINDOW_SECONDS>>

RateKeys == {RateKey(ip, now) : ip \in IPs, now \in 0..MaxSeconds}

IdleClient ==
  [pc |-> "idle", key |-> RateKey("", 0), count |-> 0, outcome |-> "none",
   history |-> FALSE, completion |-> FALSE]

NoLimiter ==
  [now |-> 0, limit |-> 1,
   store |-> [key \in RateKeys |-> [count |-> 0, expires |-> 0]],
   req |-> [c \in 1..MaxClients |-> IdleClient]]

ProxiesIdle ==
  /\ sse = NoStream
  /\ toolLoop = NoLoop
  /\ rl = NoLimiter

TunablesInit ==
  /\ STB_MAX_ITEMS \in 0..MaxCap
  /\ RECALL_TOP_K \in 0..MaxTopK
  /\ LTM_SCAN_LIMIT \in {MaxList}
  /\ TOKEN_BUDGET \in {MaxTok}
  /\ MAX_OUTPUT_TOKENS \in {2}
  /\ OPENAI_API_KEY \in BOOLEAN

Init ==
  /\ TunablesInit
  /\ redis = [key \in Keys |-> Absent]
  /\ clock = 0
  /\ last = NoRequest
  /\ appended = [key \in STBKeys |-> <<>>]
  /\ pre = [key \in Keys |-> Absent]
  /\ bp = Idle
  /\ run = <<>>
  /\ ProxiesIdle

Next ==
  \/ \E p \in Sessions, req \in Requests, a \in Replies : ChatTurn(p[1], p[2], req, a)
  \/ ChatBadRequest
  \/ \E p \in Sessions : ChatPromptError(p[1], p[2])
  \/ \E p \in Sessions, req \in Requests : ChatUpstreamError(p[1], p[2], req)
  \/ \E p \in Sessions : Purge(p[1], p[2])
  \/ PurgeBadRequest

Spec == Init /\ [][Next]_vars

\* buildPrompt on a stored session at rest
InitPrompt ==
  /\ TunablesInit
  /\ \E stb \in ListsUpTo(RestLength), ltm \in ListsUpTo(1),
        summary \in {<<>>, SummaryHead} : redis = StoreWith(stb, ltm, summary)
  /\ clock = 4
  /\ last = NoRequest
  /\ appended = [key \in STBKeys |-> <<>>]
  /\ pre = [key \in Keys |-> Absent]
  /\ bp = Idle
  /\ run = <<>>
  /\ ProxiesIdle

NextPrompt ==
  \/ \E req \in Requests, q \in EmbChoices(1) :
        BPStart(SomeSession[1], SomeSession[2], req, q[1])
  \/ \E t \in 0..MaxTok : BPCount(t)
  \/ BPCountFails

SpecPrompt == InitPrompt /\ [][NextPrompt]_vars

\* rollover on a stored session whose STB may be over capacity
InitRoll ==
  /\ TunablesInit
  /\ \E stb \in ListsUpTo(MaxList), ltm \in ListsUpTo(1) :
        redis = StoreWith(stb, ltm, <<>>)
  /\ clock = 4
  /\ last = NoRequest
  /\ appended = [key \in STBKeys |-> <<>>]
  /\ pre = [key \in Keys |-> Absent]
  /\ bp = Idle
  /\ run = <<>>
  /\ ProxiesIdle

NextRoll == Rollover(SomeSession[1], SomeSession[2])

SpecRoll == InitRoll /\ [][NextRoll]_vars

\* ------------------------------------------------------------------ claims

\* C1: with STB_MAX_ITEMS >= 1, after any sequence of chat turns run one at
\* a time, every session's STB list has at most STB_MAX_ITEMS items.
C1_STBBounded ==
  STB_MAX_ITEMS >= 1 => \A k \in STBKeys : llen(redis, k) <= STB_MAX_ITEMS

\* a session whose STB is full after a turn that had to trim
C1_Witness ==
  \E k \in STBKeys :
    /\ STB_MAX_ITEMS >= 1
    /\ llen(redis, k) = STB_MAX_ITEMS
    /\ Len(appended[k]) > 2 * STB_MAX_ITEMS

\* C2: a chat turn drops no entry silently: every entry STB held before
\* the turn and every entry the turn appends is, when the turn completes,
\* still in STB or in LTM of its session.
C2_NoSilentDrop ==
  (last.kind = "chat" /\ last.status = 200) =>
    Range(last.stbBefore) \cup Range(last.entries)
      \subseteq Range(Carried(redis, keySTB(last.session[1], last.session[2])))
                  \cup Range(Carried(redis, keyLTM(last.session[1], last.session[2])))

\* C3: with STB_MAX_ITEMS = M, a session that started empty and saw n
\* successful turns (entries e1..e2n) has STB = the last min(2n, M) entries
\* and LTM = the first max(0, 2n - M) entries, both in insertion order
\* (stated here for M >= 1).
C3_LastInSTBFirstInLTM ==
  STB_MAX_ITEMS >= 1 =>
    \A p \in Sessions :
      LET h == appended[keySTB(p[1], p[2])]
      IN /\ Carried(redis, keySTB(p[1], p[2])) = LastN(h, Min(Len(h), STB_MAX_ITEMS))
         /\ Carried(redis, keyLTM(p[1], p[2])) = FirstN(h, Max(0, Len(h) - STB_MAX_ITEMS))

\* C9: every item a write path stores is the JSON text of one single
\* entry, never of an array of entries.
C9_ItemsAreSingleEntries ==
  \A k \in Keys : \A i \in 1..Len(redis[k].list) : IsCanonicalItem(redis[k].list[i])

\* ---------------------------------------------- claims on buildPrompt
Returned == [system |-> bp.system, messages |-> bp.messages]

Counted(i) == [system |-> bp.trace[i].system, messages |-> bp.trace[i].messages]

\* The oracle's answers so far are those of a monotone oracle that gives m
\* for the minimal payload: every candidate is the previous one with a
\* message or a block removed, and the minimal payload is contained in all
\* of them.
MonotoneOracle(m) ==
  \A i \in 1..Len(bp.trace) :
    /\ bp.trace[i].tokens >= m
    /\ IsMinimalPayload(bp, bp.trace[i].system, bp.trace[i].messages) => bp.trace[i].tokens = m
    /\ \A j \in (i + 1)..Len(bp.trace) : bp.trace[j].tokens <= bp.trace[i].tokens

\* the token count of the returned payload when the minimal payload counts
\* m: -1 when the oracle was never asked about it and it is not the minimal
\* payload
ReturnedTokens(m) ==
  IF \E i \in 1..Len(bp.trace) : Counted(i) = Returned
  THEN bp.trace[CHOOSE i \in 1..Len(bp.trace) : Counted(i) = Returned].tokens
  ELSE IF IsMinimalPayload(bp, bp.system, bp.messages) THEN m
  ELSE 0 - 1

HasBlock(system, b) == \E i \in 1..Len(system) : system[i].b = b

\* C4: under a monotone oracle, if the minimal payload fits the budget then
\* the payload buildPrompt returns fits the budget.
C4_ReturnedFitsWhenPossible ==
  bp.pc = "done" =>
    \A m \in 0..MaxTok :
      (MonotoneOracle(m) /\ FitsBudget(m)) =>
        (ReturnedTokens(m) >= 0 /\ FitsBudget(ReturnedTokens(m)))

\* the whole ladder was needed: nothing counted fitted and the summary
\* block was dropped last
C4_Witness ==
  /\ bp.pc = "done" /\ \E m \in 0..MaxTok : MonotoneOracle(m) /\ FitsBudget(m)
  /\ Len(bp.stb) >= 1 /\ bp.recalledBlock # <<>> /\ bp.summaryBlock # <<>>
  /\ \A i \in 1..Len(bp.trace) : ~FitsBudget(bp.trace[i].tokens)
  /\ IsMinimalPayload(bp, bp.system, bp.messages)

\* the candidates in the order the claim gives: the full payload, STB with
\* its k oldest entries removed (k = 1..|STB|), the recalled block dropped,
\* the summary block dropped
Ladder ==
  LET n == Len(bp.stb)
      user == <<toAnthropicMessage(bp.userEntry)>>
      stbMsgs(k) == [i \in 1..(n - k) |-> toAnthropicMessage(bp.stb[k + i])]
      trims == [j \in 1..(n + 1) |->
                  [system |-> SystemText(bp.locale, bp.summaryBlock, bp.recalledBlock),
                   messages |-> stbMsgs(j - 1) \o user]]
      noRecall == IF bp.recalledBlock = <<>> THEN <<>>
                  ELSE <<[system |-> SystemText(bp.locale, bp.summaryBlock, <<>>),
                          messages |-> user]>>
      noSummary == IF bp.summaryBlock = <<>> THEN <<>>
                   ELSE <<[system |-> SystemText(bp.locale, <<>>, <<>>), messages |-> user]>>
  IN trims \o noRecall \o noSummary

\* C5: buildPrompt returns the first candidate of the ladder that fits (the
\* last one when none does); so the returned messages are a newest-end
\* suffix of STB followed by the new user entry, the recalled block is
\* dropped only when no STB entry remains and the summary block only when
\* the recalled block is absent.
C5_FirstFitInFixedOrder ==
  bp.pc = "done" =>
    LET n == Len(bp.trace)
    IN /\ n >= 1 /\ n <= Len(Ladder)
       /\ \A i \in 1..n : Counted(i) = Ladder[i]
       /\ \A i \in 1..(n - 1) : ~FitsBudget(bp.trace[i].tokens)
       /\ IF FitsBudget(bp.trace[n].tokens) THEN Returned = Ladder[n]
          ELSE Returned = Ladder[Len(Ladder)] /\ n >= Len(Ladder) - 1
       /\ \E k \in 0..Len(bp.stb) :
            bp.messages = [i \in 1..k |-> toAnthropicMessage(LastN(bp.stb, k)[i])]
                            \o <<toAnthropicMessage(bp.userEntry)>>
       /\ (bp.recalledBlock # <<>> /\ ~HasBlock(bp.system, "recalled")) => Len(bp.messages) = 1
       /\ (bp.summaryBlock # <<>> /\ ~HasBlock(bp.system, "summary"))
            => ~HasBlock(bp.system, "recalled")

\* the recalled block was dropped, which made the payload fit: the summary
\* block is kept
C5_Witness ==
  /\ bp.pc = "done" /\ Len(bp.stb) >= 2
  /\ bp.recalledBlock # <<>> /\ bp.summaryBlock # <<>>
  /\ bp.system = SystemText(bp.locale, bp.summaryBlock, <<>>)
  /\ FitsBudget(bp.tokens)

\* C6: the returned payload ends with the new user entry and its system
\* text starts with the base prompt and the locale line; when even the
\* minimal payload is over budget (monotone oracle) buildPrompt still
\* returns, and what it returns is the minimal payload.
C6_KeepsUserAndBase ==
  bp.pc = "done" =>
    /\ Len(bp.messages) >= 1
    /\ bp.messages[Len(bp.messages)] = toAnthropicMessage(bp.userEntry)
    /\ IsPrefix(SystemText(bp.locale, <<>>, <<>>), bp.system)
    /\ (\E m \in 0..MaxTok : MonotoneOracle(m) /\ ~FitsBudget(m))
         => IsMinimalPayload(bp, bp.system, bp.messages)

C6_Witness ==
  /\ bp.pc = "done" /\ \E m \in 0..MaxTok : MonotoneOracle(m) /\ ~FitsBudget(m)
  /\ Len(bp.stb) >= 1 /\ bp.recalledBlock # <<>> /\ bp.summaryBlock # <<>>
  /\ IsMinimalPayload(bp, bp.system, bp.messages)

\* C7: each candidate's messages are a suffix of the previous candidate's
\* and its system text a prefix of the previous one's, and buildPrompt makes
\* at most STB_MAX_ITEMS + 2 degradation steps.
C7_LadderMonotoneAndBounded ==
  /\ \A i \in 2..Len(bp.trace) :
       /\ IsSuffix(bp.trace[i].messages, bp.trace[i - 1].messages)
       /\ IsPrefix(bp.trace[i].system, bp.trace[i - 1].system)
  /\ (bp.pc = "done" /\ bp.trace # <<>>) =>
       /\ IsSuffix(bp.messages, bp.trace[Len(bp.trace)].messages)
       /\ IsPrefix(bp.system, bp.trace[Len(bp.trace)].system)
  /\ bp.steps <= STB_MAX_ITEMS + 2

\* C10: reading a list gives every stored entry in insertion order, an
\* item of the array shape being flattened into its member entries.
C10_ReadFlattensArrayItems ==
  bp.pc \in {"full", "trim", "norecall", "done"} =>
    bp.stb = EntriesOfList(redis[keySTB(SomeSession[1], SomeSession[2])].list)

\* ------------------------------------------------- claims on rollover
\* C8: one rollover with no other writer: when STB is over capacity, what
\* LTM gains is exactly the oldest `excess` STB entries, in order, unchanged
\* but for an added embedding, and STB loses exactly those; otherwise
\* neither list changes (stated here for STB_MAX_ITEMS >= 1).
C8_RolloverConserves ==
  (last.kind = "rollover" /\ STB_MAX_ITEMS >= 1) =>
    LET kS == keySTB(last.session[1], last.session[2])
        kL == keyLTM(last.session[1], last.session[2])
        stbB == lrangeJSON(pre, kS, 0, 0 - 1)
        ltmB == lrangeJSON(pre, kL, 0, 0 - 1)
        stbA == lrangeJSON(redis, kS, 0, 0 - 1)
        ltmA == lrangeJSON(redis, kL, 0, 0 - 1)
        moved == SubSeq(ltmA, Len(ltmB) + 1, Len(ltmA))
    IN IF llen(pre, kS) > STB_MAX_ITEMS
       THEN /\ IsPrefix(ltmB, ltmA)
            /\ llen(pre, kS) = llen(redis, kS) + Len(moved)
            /\ WithoutEmb(moved) = WithoutEmb(FirstN(stbB, llen(pre, kS) - STB_MAX_ITEMS))
            /\ stbA = LastN(stbB, STB_MAX_ITEMS)
       ELSE redis[kS] = pre[kS] /\ redis[kL] = pre[kL]

\* ----------------------------------------------------- ltrimKeepLast alone
\* ltrimKeepLast(redis, key, maxItems) run on its own on a stored list
Trim(coreId, sessionId, maxItems) ==
  /\ last.kind = "none"
  /\ redis' = ltrimKeepLast(redis, keySTB(coreId, sessionId), maxItems)
  /\ pre' = redis
  /\ last' = [Outcome("trim", 200) EXCEPT !.session = <<coreId, sessionId>>,
                                         !.input = <<maxItems>>]
  /\ UNCHANGED <<clock, appended, tunables, proxies, bp, run>>

InitTrim ==
  /\ TunablesInit
  /\ \E stb \in ListsUpTo(MaxList) : redis = StoreWith(stb, <<>>, <<>>)
  /\ clock = 4
  /\ last = NoRequest
  /\ appended = [key \in STBKeys |-> <<>>]
  /\ pre = [key \in Keys |-> Absent]
  /\ bp = Idle
  /\ run = <<>>
  /\ ProxiesIdle

NextTrim == \E maxItems \in 0..MaxCap : Trim(SomeSession[1], SomeSession[2], maxItems)

SpecTrim == InitTrim /\ [][NextTrim]_vars

\* C11: ltrimKeepLast(key, max) leaves exactly the last min(len, max) items
\* of the list, in their order, for every max >= 0 (an empty list for
\* max = 0).
C11_TrimKeepsLastMax ==
  last.kind = "trim" =>
    LET k == keySTB(last.session[1], last.session[2])
        before == pre[k].list
    IN redis[k].list = LastN(before, Min(Len(before), last.input[1]))

\* ------------------------------------------------- summary refresh alone
\* the turns a refresh is given: no fact, a short fact, a long fact
SummaryTurns ==
  {<<EntryObj("user", "hi", 5, "uk"), EntryObj("assistant", "ok", 6, "uk")>>,
   <<EntryObj("user", "my cat is tom", 5, "en"), EntryObj("assistant", "", 6, "en")>>,
   <<EntryObj("user", LongFact, 5, "en"), EntryObj("assistant", "ok", 6, "en")>>}

LongTurn == <<EntryObj("user", LongFact, 3, "en"), EntryObj("assistant", "ok", 4, "en")>>

\* the summary n refreshes with the long fact leave, starting from none
RECURSIVE SummaryAfter(_)
SummaryAfter(n) ==
  IF n = 0 THEN <<>> ELSE updateSummaryHeuristic(SummaryAfter(n - 1), LongTurn)

MaxRefresh == 7

\* maybeRefreshSummary(coreId, sessionId, recentEntries) run on its own
Refresh(coreId, sessionId, recentEntries) ==
  /\ last.kind = "none"
  /\ redis' = maybeRefreshSummary(redis, coreId, sessionId, recentEntries)
  /\ pre' = redis
  /\ last' = [Outcome("refresh", 200) EXCEPT !.session = <<coreId, sessionId>>,
                                            !.entries = recentEntries]
  /\ UNCHANGED <<clock, appended, tunables, proxies, bp, run>>

InitSummary ==
  /\ TunablesInit
  /\ \E n \in 0..MaxRefresh : redis = StoreWith(<<>>, <<>>, SummaryAfter(n))
  /\ clock = 4
  /\ last = NoRequest
  /\ appended = [key \in STBKeys |-> <<>>]
  /\ pre = [key \in Keys |-> Absent]
  /\ bp = Idle
  /\ run = <<>>
  /\ ProxiesIdle

NextSummary == \E turn \in SummaryTurns : Refresh(SomeSession[1], SomeSession[2], turn)

SpecSummary == InitSummary /\ [][NextSummary]_vars

\* the summary a refresh found and the one it left
SummaryBefore == readSummary(pre, keySUM(last.session[1], last.session[2]))
SummaryNow == readSummary(redis, keySUM(last.session[1], last.session[2]))

\* C12: the merge is idempotent: merging the same entries into the result
\* of a merge gives that result again, no fact line is added a second time.
C12_MergeIdempotent ==
  last.kind = "refresh" =>
    LET merged == updateSummaryHeuristic(SummaryBefore, last.entries)
    IN updateSummaryHeuristic(merged, last.entries) = merged

\* C13: the stored summary of every session is a single text of at most
\* 1600 characters.
C13_SummaryCapped ==
  \A p \in Sessions :
    /\ redis[keySUM(p[1], p[2])].type \in {"none", "string"}
    /\ TextLen(redis[keySUM(p[1], p[2])].str) <= SUMMARY_MAX_CHARS

\* a refresh whose merged text was longer than the cap and was cut to it
C13_Witness ==
  /\ last.kind = "refresh"
  /\ TextLen(MergedText(SummaryBefore, last.entries)) > SUMMARY_MAX_CHARS
  /\ TextLen(SummaryNow) = SUMMARY_MAX_CHARS

\* C14: a refresh writes only when the merged text differs from the stored
\* one, and a refresh repeated with the same input changes nothing.
C14_RefreshWritesOnlyOnChange ==
  last.kind = "refresh" =>
    /\ updateSummaryHeuristic(SummaryBefore, last.entries) = SummaryBefore => redis = pre
    /\ maybeRefreshSummary(redis, last.session[1], last.session[2], last.entries) = redis

\* C15: when the merged summary is longer than the cap, the fact lines of
\* the current turn are in the stored summary after the refresh (what is
\* cut away is the oldest content).
C15_TruncationKeepsNewFacts ==
  (last.kind = "refresh"
     /\ TextLen(MergedText(SummaryBefore, last.entries)) > SUMMARY_MAX_CHARS) =>
    Range(FactLines(last.entries)) \subseteq Range(SummaryNow)

\* ------------------------------------------------------ recall on its own
\* LTM items a recall can find: entries of both roles with the same content,
\* with and without a stored vector, and an item of the shape appendList
\* gives the entries it is handed
RecallItems ==
  {JSONstringify(EntryObj("user", "hi", 1, "uk")),
   JSONstringify([EntryObj("assistant", "hi", 2, "uk") EXCEPT !.e.emb = "v1"]),
   JSONstringify([EntryObj("user", "my cat is tom", 3, "en") EXCEPT !.e.emb = "v2"]),
   Serialize(ArrayOf(<<JSONstringify(EntryObj("user", "hi", 1, "uk"))>>))}

\* recallFromLTM(coreId, sessionId, userMsg) run on its own; qOutcome is
\* what the embedding provider gives for the query
Recall(coreId, sessionId, userMsg, qOutcome) ==
  /\ last.kind = "none"
  /\ LET rec == recallFromLTM(redis, coreId, sessionId, userMsg, qOutcome)
     IN last' = [Outcome("recall", IF rec.throws THEN 500 ELSE 200)
                   EXCEPT !.session = <<coreId, sessionId>>, !.entries = rec.out,
                          !.input = <<userMsg, qOutcome>>]
  /\ redis' = lrangeJSONStore(redis, keyLTM(coreId, sessionId))
  /\ pre' = redis
  /\ UNCHANGED <<clock, appended, tunables, proxies, bp, run>>

InitRecall ==
  /\ STB_MAX_ITEMS \in {MaxCap}
  /\ RECALL_TOP_K \in 0..MaxList
  /\ LTM_SCAN_LIMIT \in 0..MaxList
  /\ TOKEN_BUDGET \in {MaxTok}
  /\ MAX_OUTPUT_TOKENS \in {2}
  /\ OPENAI_API_KEY \in BOOLEAN
  /\ \E m \in 0..MaxList : \E ltm \in [1..m -> RecallItems] :
        redis = StoreWith(<<>>, ltm, <<>>)
  /\ clock = 4
  /\ last = NoRequest
  /\ appended = [key \in STBKeys |-> <<>>]
  /\ pre = [key \in Keys |-> Absent]
  /\ bp = Idle
  /\ run = <<>>
  /\ ProxiesIdle

NextRecall ==
  \E req \in Requests, q \in EmbChoices(1) :
    Recall(SomeSession[1], SomeSession[2], req.content, q[1])

SpecRecall == InitRecall /\ [][NextRecall]_vars

\* the values the LTM list held, decoded, when the recall began
RecallStored == ParsedOrDropped(pre[keyLTM(last.session[1], last.session[2])].list)

\* the candidates of the recall: what it read from the LTM list
RecallCandidates ==
  lrangeJSON(pre, keyLTM(last.session[1], last.session[2]), 0 - LTM_SCAN_LIMIT, 0 - 1)

\* the score recall gives a candidate in the pass that was run
RecallScore(e) == ScoreOf(embedText(OPENAI_API_KEY, last.input[2]), last.input[1], e)

\* the candidates, best first, ties in list order, cut to RECALL_TOP_K
RecallTop ==
  LET all == RecallCandidates
      scored == [i \in 1..Len(all) |-> [score |-> RecallScore(all[i]), entry |-> all[i]]]
      sorted == SortByScore(scored)
  IN [i \in 1..Min(RECALL_TOP_K, Len(sorted)) |-> sorted[i].entry]

\* the elements of s at the indexes in I, in order
SubseqAt(s, I) ==
  LET F[i \in 0..Len(s)] ==
        IF i = 0 THEN <<>> ELSE IF i \in I THEN Append(F[i - 1], s[i]) ELSE F[i - 1]
  IN F[Len(s)]

\* C16: recall returns at most RECALL_TOP_K entries, in non-increasing
\* score order, no two with the same key (role + first 120 characters of
\* content): the first occurrence of every key among the RECALL_TOP_K best
\* candidates; the same content under two roles is returned twice.
C16_RecallTopKDeduplicated ==
  (last.kind = "recall" /\ last.status = 200) =>
    LET out == last.entries
        top == RecallTop
        key(e) == <<FieldRole(e), Prefix120(FieldContent(e))>>
        firsts == {i \in 1..Len(top) : \A j \in 1..(i - 1) : key(top[j]) # key(top[i])}
    IN /\ Len(out) <= RECALL_TOP_K
       /\ \A i, j \in 1..Len(out) :
            i < j => ~ScoreGreater(RecallScore(out[j]), RecallScore(out[i]))
       /\ \A i, j \in 1..Len(out) : i # j => key(out[i]) # key(out[j])
       /\ out = SubseqAt(top, firsts)
       /\ \A i, j \in 1..Len(top) :
            (FieldContent(top[i]) = FieldContent(top[j]) /\ FieldRole(top[i]) # FieldRole(top[j]))
              => (top[i] \in Range(out) /\ top[j] \in Range(out))

\* two of the best candidates have the same content and different roles
C16_Witness ==
  /\ last.kind = "recall" /\ last.status = 200
  /\ \E i, j \in 1..Len(last.entries) :
       /\ FieldContent(last.entries[i]) = FieldContent(last.entries[j])
       /\ FieldRole(last.entries[i]) # FieldRole(last.entries[j])

\* C17: only the last LTM_SCAN_LIMIT entries of LTM are candidates: recall
\* returns no entry older than that window.
C17_RecallWithinWindow ==
  (last.kind = "recall" /\ last.status = 200) =>
    Range(last.entries) \subseteq Range(LastN(RecallStored, LTM_SCAN_LIMIT))

\* C18: when the query embedding fails, recall goes on with no query vector:
\* every candidate, one with a stored vector too, is scored by keyword
\* overlap, and the recall does not fail for it.
C18_EmbeddingFailureFallsBack ==
  (last.kind = "recall" /\ OPENAI_API_KEY /\ last.input[2] = "throw") =>
    LET all == RecallCandidates
        kw == [i \in 1..Len(all) |->
                 [score |-> keywordScore(last.input[1], ContentText(all[i])),
                  entry |-> all[i]]]
        sorted == SortByScore(kw)
        top == [i \in 1..Min(RECALL_TOP_K, Len(sorted)) |-> sorted[i].entry]
    IN IF \E i \in 1..Len(top) : FieldContent(top[i]) = Undefined
       THEN last.status = 500
       ELSE last.status = 200 /\ last.entries = Dedup(top, {})

\* the query embedding failed and recall returned an entry that stores a
\* vector, ranked by its keyword overlap
C18_Witness ==
  /\ last.kind = "recall" /\ last.status = 200
  /\ OPENAI_API_KEY /\ last.input[2] = "throw"
  /\ Len(last.entries) >= 2
  /\ FieldEmb(last.entries[1]) \in Vectors
  /\ ScoreGreater(keywordScore(last.input[1], ContentText(last.entries[1])),
                  keywordScore(last.input[1], ContentText(last.entries[2])))

\* --------------------------------------- claims on embeddings in rollover
\* the entries LTM is to carry for a value rollover moves, given what the
\* embedding provider answered for it: an entry keeps its fields and gains
\* the vector when one was given
ExpectedArchived(v, i) ==
  IF v.k = "entry"
  THEN <<IF OPENAI_API_KEY /\ last.input[i] \in Vectors
         THEN [v EXCEPT !.e.emb = last.input[i]] ELSE v>>
  ELSE EntriesIn(v)

\* C19: in a rollover an embedding failure for an entry is not fatal: that
\* entry reaches LTM without a new vector, the other overflow entries are
\* processed and appended too, and the rollover completes.
C19_EmbeddingFailureNotFatal ==
  (last.kind = "rollover"
     /\ llen(pre, keySTB(last.session[1], last.session[2])) > STB_MAX_ITEMS) =>
    LET kS == keySTB(last.session[1], last.session[2])
        kL == keyLTM(last.session[1], last.session[2])
        moved == FirstN(ParsedOrDropped(pre[kS].list), llen(pre, kS) - STB_MAX_ITEMS)
    IN /\ last.status = 200
       /\ EntriesOfList(redis[kL].list) =
            EntriesOfList(pre[kL].list)
              \o Flatten([i \in 1..Len(moved) |-> ExpectedArchived(moved[i], i)])

\* two entries were moved, the provider failed for the first and gave a
\* vector for the second
C19_Witness ==
  /\ last.kind = "rollover" /\ OPENAI_API_KEY
  /\ Len(last.input) = 2
  /\ last.input[1] = "throw" /\ last.input[2] \in Vectors
  /\ \E e \in Range(EntriesOfList(redis[keyLTM(last.session[1], last.session[2])].list)) :
       FieldEmb(e) = last.input[2] /\ FieldRole(e) = "user"

\* ------------------------------------------------- claims on LTM's growth
\* C20: across chat requests without a purge a session's LTM only grows at
\* its tail: every step other than a purge leaves the items LTM holds in
\* place, unchanged and in order, and adds new ones only after them.
C20_LTMAppendOnly ==
  [][last'.kind # "purge" =>
       \A p \in Sessions :
         IsPrefix(redis[keyLTM(p[1], p[2])].list, redis'[keyLTM(p[1], p[2])].list)]_vars

\* LTM was appended to by two chat turns in a row
C20_Witness ==
  /\ last.kind = "chat" /\ last.status = 200
  /\ Len(redis[keyLTM(last.session[1], last.session[2])].list) >= 2

\* ------------------------------------------------ claims on session scope
\* the three keys of a session
KeysOf(p) == {keySTB(p[1], p[2]), keyLTM(p[1], p[2]), keySUM(p[1], p[2])}

\* C28: distinct (coreId, sessionId) pairs have distinct keys, and a chat
\* turn or a purge on one session leaves the STB, LTM and Summary of every
\* other session as they were, ids that contain ":" included.
C28_SessionsIsolated ==
  [][(last'.kind \in {"chat", "purge"} /\ last'.status = 200) =>
       \A q \in Sessions \ {last'.session} :
         /\ KeysOf(q) \cap KeysOf(last'.session) = {}
         /\ \A k \in KeysOf(q) : redis'[k] = redis[k]]_vars

\* C29: a purge that completes leaves the three keys of its session absent
\* and changes no key of any other session; a purge request without
\* core_id or session_id deletes nothing.
C29_PurgeRemovesOnlyItsSession ==
  [][last'.kind = "purge" =>
       IF last'.status = 200
       THEN /\ \A k \in KeysOf(last'.session) : redis'[k] = Absent
            /\ \A q \in Sessions \ {last'.session} : \A k \in KeysOf(q) : redis'[k] = redis[k]
       ELSE redis' = redis]_vars

\* ------------------------------- chat handler, one awaited call at a time
\* Each chat request is a run of chatHandler; between two awaited calls of
\* one run the calls of the other runs may take place.  The requests are
\* for one session and pass the onRequest guard.
MaxReq == 2

\* a request body: the fields it has; a missing field is not in its domain
Bodies ==
  {[core_id |-> <<"a">>, session_id |-> <<"a">>, user_message |-> "my cat is tom", locale |-> "en"],
   [core_id |-> <<"a">>, session_id |-> <<"a">>, prompt |-> "my cat is tom", locale |-> "en"],
   [session_id |-> <<"a">>, user_message |-> "hi"],
   [core_id |-> <<"a">>, prompt |-> "hi"],
   [core_id |-> <<"a">>, session_id |-> <<"a">>, locale |-> "en"],
   [core_id |-> <<"a">>, session_id |-> <<"a">>, user_message |-> "", prompt |-> "hi"]}

Has(body, field) == field \in DOMAIN body

\* const content = user_message ?? prompt
ContentOf(body) ==
  IF Has(body, "user_message") THEN body.user_message
  ELSE IF Has(body, "prompt") THEN body.prompt ELSE Undefined

\* locale = 'uk' by default
LocaleOf(body) == IF Has(body, "locale") THEN body.locale ELSE "uk"

\* const { core_id, session_id, user_message, prompt, locale = 'uk' } = b:
\* what the handler keeps of a body
Destructured(body) ==
  [core_id |-> body.core_id, session_id |-> body.session_id,
   user_message |-> ContentOf(body), locale |-> LocaleOf(body)]

\* a check that looks at the ids only
IsBadRequest_idsOnly(body) ==
  \/ ~Has(body, "core_id") \/ ~Has(body, "session_id")

\* !core_id || !session_id || !content
IsBadRequest(body) ==
  \/ ~Has(body, "core_id") \/ ~Has(body, "session_id")
  \/ ContentOf(body) \in {Undefined, ""}

\* the response a request ends with: status, error code, the reply text it
\* carries and whether it warns that the reply was not persisted
Response(status, error, reply) ==
  [status |-> status, error |-> error, reply |-> reply, warning |-> FALSE]

NoResponse == Response(0, "", Undefined)

\* reply.code(400).send({ error: 'bad_request', .. })
BadRequestResponse == Response(400, "bad_request", Undefined)
\* reply.code(502).send({ error: 'upstream_error', .. })
UpstreamErrorResponse == Response(502, "upstream_error", Undefined)
\* the handler rejects: the framework answers 500 with the error's message
InternalErrorResponse == Response(500, "Internal Server Error", Undefined)
\* reply.send({ core_id, session_id, locale, reply: assistantText })
ReplyResponse(assistantText) == Response(200, "", assistantText)

\* core_id, session_id or the message (user_message and prompt) is not in
\* the body
FieldsMissing(body) ==
  \/ ~Has(body, "core_id") \/ ~Has(body, "session_id")
  \/ ~Has(body, "user_message") /\ ~Has(body, "prompt")

\* One run: pc is the call it is about to make, the other fields are the
\* handler's locals; log lists the calls made so far, cause says why a
\* failed run ended, before is the store as the request found it,
\* missing tells whether its body lacked a required field and overlap
\* whether another request was being handled when it arrived.
IdleRun ==
  [pc |-> "idle", body |-> [locale |-> "uk"],
   userEntry |-> EntryObj("", "", 0, ""), assistantEntry |-> EntryObj("", "", 0, ""),
   bp |-> Idle, len |-> 0, toMove |-> <<>>, enriched |-> <<>>, next |-> <<>>,
   response |-> NoResponse, cause |-> "", log |-> <<>>,
   before |-> [key \in Keys |-> Absent], missing |-> FALSE, overlap |-> FALSE]

\* the run returns or rejects: its locals are gone
Finish(p, response, cause) ==
  [p EXCEPT !.pc = "done", !.response = response, !.cause = cause, !.bp = Idle,
            !.len = 0, !.toMove = <<>>, !.enriched = <<>>, !.next = <<>>]

\* an order that refreshes the summary before anything else
PersistOrder_summaryFirst == <<"summary", "append", "trim", "rollover">>

\* lines 407-410: appendList, ltrimKeepLast, rolloverSTBIfNeeded,
\* maybeRefreshSummary
PersistOrder == <<"append", "trim", "rollover", "summary">>

\* the first call of each persistence step
FirstPc(phase) ==
  CASE phase = "append" -> "ap_type"
    [] phase = "trim" -> "tr_type"
    [] phase = "rollover" -> "ro_type"
    [] phase = "summary" -> "su_get"

\* where the handler goes when a persistence step has returned
PhaseAfter(phase) ==
  LET j == CHOOSE j \in 1..Len(PersistOrder) : PersistOrder[j] = phase
  IN IF j = Len(PersistOrder) THEN "respond" ELSE FirstPc(PersistOrder[j + 1])

\* the calls to the store, by the step that makes them
AppendPcs == {"ap_type", "ap_rpush", "ap_expire"}
TrimPcs == {"tr_type", "tr_ltrim", "tr_expire"}
RolloverPcs == {"ro_type", "ro_llen", "ro_lr_type", "ro_lrange", "ro_tr_type",
                "ro_ltrim", "ro_expire", "la_type", "la_rpush", "la_expire"}
SummaryPcs == {"su_get", "su_set", "su_expire"}
StorePcs == AppendPcs \cup TrimPcs \cup RolloverPcs \cup SummaryPcs

\* the calls that change the store
WritePcs == {"ap_rpush", "ap_expire", "tr_ltrim", "tr_expire", "ro_ltrim", "ro_expire",
             "la_rpush", "la_expire", "su_set", "su_expire"}

\* client.rpush(key, entries.map((e) => JSON.stringify(e)))
RpushEntries(r, key, entries) ==
  rpush(r, key, <<ArrayOf([i \in 1..Len(entries) |-> JSONstringify(entries[i])])>>)

\* a trim command that removes nothing
TrimCommand_keepAll(r, key, maxItems) == r

\* a trim command that keeps one item too many
TrimCommand_offByOne(r, key, maxItems) == ltrim(r, key, 0 - (maxItems + 1), 0 - 1)

\* client.ltrim(key, -maxItems, -1)
TrimCommand(r, key, maxItems) == ltrim(r, key, 0 - maxItems, 0 - 1)

\* after the trim of a rollover: the embedding loop when there is a
\* provider, then appendList (which returns at once without entries)
AfterRolloverTrim(p) ==
  IF p.toMove = <<>> THEN [p EXCEPT !.pc = PhaseAfter("rollover")]
  ELSE IF OPENAI_API_KEY THEN [p EXCEPT !.pc = "ro_embed", !.enriched = <<>>]
  ELSE [p EXCEPT !.pc = "la_type",
                 !.enriched = [j \in 1..Len(p.toMove) |-> Enrich(p.toMove[j], "null")]]

\* the store call run p is about to make: the store and the run after it
StoreEffect(r, p) ==
  LET kS == keySTB(p.body.core_id, p.body.session_id)
      kL == keyLTM(p.body.core_id, p.body.session_id)
      kU == keySUM(p.body.core_id, p.body.session_id)
      turn == <<p.userEntry, p.assistantEntry>>
      prev == readSummary(r, kU)
      next == updateSummaryHeuristic(prev, turn)
      to(pc) == [p EXCEPT !.pc = pc]
      res(r1, p1) == [r |-> r1, p |-> p1]
  IN CASE p.pc = "ap_type" -> res(ensureListKey(r, kS), to("ap_rpush"))
       [] p.pc = "ap_rpush" -> res(RpushEntries(r, kS, turn), to("ap_expire"))
       [] p.pc = "ap_expire" ->
            res(expire(r, kS, HISTORY_TTL_SECONDS), to(PhaseAfter("append")))
       [] p.pc = "tr_type" -> res(ensureListKey(r, kS), to("tr_ltrim"))
       [] p.pc = "tr_ltrim" -> res(TrimCommand(r, kS, STB_MAX_ITEMS), to("tr_expire"))
       [] p.pc = "tr_expire" ->
            res(expire(r, kS, HISTORY_TTL_SECONDS), to(PhaseAfter("trim")))
       [] p.pc = "ro_type" -> res(ensureListKey(r, kS), to("ro_llen"))
       [] p.pc = "ro_llen" ->
            res(r, IF llen(r, kS) <= STB_MAX_ITEMS THEN to(PhaseAfter("rollover"))
                   ELSE [p EXCEPT !.pc = "ro_lr_type", !.len = llen(r, kS)])
       [] p.pc = "ro_lr_type" -> res(ensureListKey(r, kS), to("ro_lrange"))
       [] p.pc = "ro_lrange" ->
            res(r, [p EXCEPT !.pc = "ro_tr_type",
                             !.toMove = ParsedOrDropped(
                                lrange(r, kS, 0, p.len - STB_MAX_ITEMS - 1))])
       [] p.pc = "ro_tr_type" -> res(ensureListKey(r, kS), to("ro_ltrim"))
       [] p.pc = "ro_ltrim" -> res(TrimCommand(r, kS, STB_MAX_ITEMS), to("ro_expire"))
       [] p.pc = "ro_expire" ->
            res(expire(r, kS, HISTORY_TTL_SECONDS), AfterRolloverTrim(p))
       [] p.pc = "la_type" -> res(ensureListKey(r, kL), to("la_rpush"))
       [] p.pc = "la_rpush" -> res(RpushEntries(r, kL, p.enriched), to("la_expire"))
       [] p.pc = "la_expire" ->
            res(expire(r, kL, HISTORY_TTL_SECONDS),
                [p EXCEPT !.pc = PhaseAfter("rollover"), !.toMove = <<>>, !.enriched = <<>>,
                          !.len = 0])
       [] p.pc = "su_get" ->
            res(r, IF next # prev THEN [p EXCEPT !.pc = "su_set", !.next = next]
                   ELSE to(PhaseAfter("summary")))
       [] p.pc = "su_set" -> res(set(r, kU, p.next), to("su_expire"))
       [] p.pc = "su_expire" ->
            res(expire(r, kU, HISTORY_TTL_SECONDS),
                [p EXCEPT !.pc = PhaseAfter("summary"), !.next = <<>>])

Logged(p, call) == [p EXCEPT !.log = Append(@, call)]

\* a request arrives and the handler runs up to its first awaited call;
\* `alone`: it arrives when no other request is being handled
Receive(i, body, alone) ==
  /\ run[i].pc = "idle"
  /\ \A j \in 1..(i - 1) : run[j].pc # "idle"
  /\ \A j \in 1..MaxReq : alone => run[j].pc \in {"idle", "done", "hung"}
  /\ IF IsBadRequest(body)
     THEN /\ run' = [run EXCEPT ![i] =
                       Finish([run[i] EXCEPT !.body = body, !.before = redis,
                                             !.missing = FieldsMissing(body)],
                              BadRequestResponse, "bad_request")]
          /\ clock' = clock
     ELSE /\ run' = [run EXCEPT ![i] =
                       [run[i] EXCEPT !.pc = "prompt", !.body = Destructured(body),
                                      !.before = redis, !.missing = FieldsMissing(body),
                                      !.overlap = \E j \in 1..MaxReq :
                                                    run[j].pc \notin {"idle", "done", "hung"},
                                      !.userEntry = EntryObj("user", ContentOf(body),
                                                             clock + 1, LocaleOf(body))]]
          /\ clock' = clock + 1
  /\ UNCHANGED <<redis, last, appended, pre, tunables, proxies, bp>>

\* buildPrompt reads STB, the summary and LTM (recall); these calls change
\* nothing in a store whose list keys hold lists
PromptReads(i, qOutcome) ==
  /\ run[i].pc = "prompt"
  /\ LET p == run[i]
         b == buildPromptStart(redis, p.body.core_id, p.body.session_id,
                               LocaleOf(p.body), p.userEntry, qOutcome)
     IN /\ run' = [run EXCEPT ![i] =
                     IF b.pc = "failed"
                     THEN Finish(Logged(p, "reads"), InternalErrorResponse, "prompt")
                     ELSE [Logged(p, "reads") EXCEPT !.pc = "count", !.bp = b]]
        /\ redis' = PromptReadsStore(redis, p.body.core_id, p.body.session_id)
  /\ UNCHANGED <<clock, last, appended, pre, tunables, proxies, bp>>

\* the text of the completion
StepReplies == {"ok"}

\* the answers of the token oracle: one that fits the budget, one that
\* does not
TokenAnswers == {0, MaxTok}

\* the run goes on from a count: the next candidate, or the payload is
\* returned and the completion request sent
Counted_(p, t, call) ==
  LET b == [OnCount(p.bp, t) EXCEPT !.trace = <<>>]
  IN IF b.pc = "done" THEN [Logged(p, call) EXCEPT !.pc = "complete", !.bp = Idle]
     ELSE [Logged(p, call) EXCEPT !.bp = b]

\* count_tokens answers t
CountAnswer(i, t) ==
  /\ run[i].pc = "count"
  /\ run' = [run EXCEPT ![i] = Counted_(run[i], t, "count")]
  /\ UNCHANGED <<redis, clock, last, appended, pre, tunables, proxies, bp>>

\* count_tokens answers with success and a body without input_tokens:
\* `data.input_tokens ?? 0`
CountNoField(i) ==
  /\ run[i].pc = "count"
  /\ run' = [run EXCEPT ![i] = Counted_(run[i], 0, "count.nofield")]
  /\ UNCHANGED <<redis, clock, last, appended, pre, tunables, proxies, bp>>

\* count_tokens answers with a non-success status: countTokens throws
CountFails(i) ==
  /\ run[i].pc = "count"
  /\ run' = [run EXCEPT ![i] =
               Finish(Logged(run[i], "count.failed"), InternalErrorResponse, "count")]
  /\ UNCHANGED <<redis, clock, last, appended, pre, tunables, proxies, bp>>

\* a call to a provider that never answers: the fetch has no timeout and
\* no abort signal
Hangs(i) ==
  /\ run[i].pc \in {"count", "complete"}
  /\ run' = [run EXCEPT ![i] = [run[i] EXCEPT !.pc = "hung", !.cause = run[i].pc]]
  /\ UNCHANGED <<redis, clock, last, appended, pre, tunables, proxies, bp>>

\* what the handler does with a non-success completion: it goes on to
\* persist
OnUpstreamError_persists(p) == [Logged(p, "fetch.error") EXCEPT !.pc = FirstPc("append")]

\* if (!res.ok) return reply.code(502).send(..)
OnUpstreamError(p) == Finish(Logged(p, "fetch.error"), UpstreamErrorResponse, "upstream")

\* the completion provider answers with success
CompletionOk(i, assistantText) ==
  /\ run[i].pc = "complete"
  /\ run' = [run EXCEPT ![i] =
               [Logged(run[i], "fetch.ok") EXCEPT
                  !.pc = FirstPc(PersistOrder[1]),
                  !.assistantEntry = EntryObj("assistant", assistantText, clock + 1,
                                              LocaleOf(run[i].body))]]
  /\ clock' = clock + 1
  /\ UNCHANGED <<redis, last, appended, pre, tunables, proxies, bp>>

\* the completion provider answers with a non-success status
CompletionError(i) ==
  /\ run[i].pc = "complete"
  /\ run' = [run EXCEPT ![i] = OnUpstreamError(run[i])]
  /\ UNCHANGED <<redis, clock, last, appended, pre, tunables, proxies, bp>>

\* the store call of the run is made and answered
StoreStep(i) ==
  /\ run[i].pc \in StorePcs
  /\ LET eff == StoreEffect(redis, run[i])
     IN /\ redis' = eff.r
        /\ run' = [run EXCEPT ![i] = Logged(eff.p, run[i].pc)]
  /\ UNCHANGED <<clock, last, appended, pre, tunables, proxies, bp>>

\* the store call of the run is rejected: the helper throws, and so do
\* rolloverSTBIfNeeded and the handler
StoreFails(i) ==
  /\ run[i].pc \in StorePcs \cup {"prompt"}
  /\ run' = [run EXCEPT ![i] = Finish(run[i], InternalErrorResponse, "store")]
  /\ UNCHANGED <<redis, clock, last, appended, pre, tunables, proxies, bp>>

\* one turn of the embedding loop of a rollover; a failure is swallowed
Embed(i, outcome) ==
  /\ run[i].pc = "ro_embed"
  /\ LET p == run[i]
         e == p.toMove[Len(p.enriched) + 1]
         enriched == Append(p.enriched, Enrich(e, embedText(OPENAI_API_KEY, outcome)))
     IN run' = [run EXCEPT ![i] =
                  [Logged(p, "ro_embed") EXCEPT
                     !.enriched = enriched,
                     !.pc = IF Len(enriched) = Len(p.toMove) THEN "la_type" ELSE "ro_embed"]]
  /\ UNCHANGED <<redis, clock, last, appended, pre, tunables, proxies, bp>>

\* return reply.send({ .., reply: assistantText })
Respond(i) ==
  /\ run[i].pc = "respond"
  /\ run' = [run EXCEPT ![i] =
               Finish(run[i], ReplyResponse(ContentText(run[i].assistantEntry)), "")]
  /\ UNCHANGED <<redis, clock, last, appended, pre, tunables, proxies, bp>>

InitSteps ==
  /\ STB_MAX_ITEMS \in 0..1
  /\ RECALL_TOP_K \in {1}
  /\ LTM_SCAN_LIMIT \in {MaxList}
  /\ TOKEN_BUDGET \in {MaxTok}
  /\ MAX_OUTPUT_TOKENS \in {2}
  /\ OPENAI_API_KEY \in BOOLEAN
  /\ redis = [key \in Keys |-> Absent]
  /\ clock = 0
  /\ last = NoRequest
  /\ appended = [key \in STBKeys |-> <<>>]
  /\ pre = [key \in Keys |-> Absent]
  /\ bp = Idle
  /\ run = [i \in 1..MaxReq |-> IdleRun]
  /\ ProxiesIdle

\* what run i does next when every call it makes is answered with success
Turn(i) ==
  \/ \E q \in EmbChoices(1) : PromptReads(i, q[1])
  \/ \E t \in TokenAnswers : CountAnswer(i, t)
  \/ \E a \in StepReplies : CompletionOk(i, a)
  \/ StoreStep(i)
  \/ \E o \in EmbOutcomes : Embed(i, o)
  \/ Respond(i)

\* a call of run i is answered with a failure
Fault(i) ==
  \/ CountNoField(i)
  \/ CountFails(i)
  \/ CompletionError(i)
  \/ StoreFails(i)

\* requests handled one after the other, with the failures of the store
\* and of the providers
NextSteps ==
  \E i \in 1..MaxReq :
    \/ \E body \in Bodies : Receive(i, body, TRUE)
    \/ Turn(i)
    \/ Fault(i)
    \/ Hangs(i)

SpecSteps == InitSteps /\ [][NextSteps]_vars

\* every call that is due is made and every answer that arrives is handled
\* (the event loop is fair); whether a provider answers at all is not up
\* to the program
SpecStepsFair == SpecSteps /\ \A i \in 1..MaxReq : WF_vars(Turn(i) \/ Fault(i))

\* requests handled concurrently, every call answered with success
InitConc ==
  /\ InitSteps
  /\ STB_MAX_ITEMS >= 1

NextConc ==
  \E i \in 1..MaxReq :
    \/ \E body \in Bodies : Receive(i, body, FALSE)
    \/ Turn(i)

SpecConc == InitConc /\ [][NextConc]_vars

\* ------------------------------------- claims on the outcomes of a request
InLog(p, call) == \E k \in 1..Len(p.log) : p.log[k] = call
Wrote(p) == \E k \in 1..Len(p.log) : p.log[k] \in WritePcs

\* the store is as request i found it, as long as no request came after it
StoreAsFound(i) ==
  (\A j \in DOMAIN run : j > i => run[j].pc = "idle") => redis = run[i].before

\* C21: a non-success answer of the completion provider ends the request
\* with upstream_error and leaves STB, LTM and Summary exactly as the
\* request found them; a request writes to them only after its completion
\* call has succeeded.
C21_UpstreamErrorWritesNothing ==
  \A i \in DOMAIN run :
    LET p == run[i]
    IN /\ InLog(p, "fetch.error") =>
            /\ p.pc = "done" /\ p.response = UpstreamErrorResponse
            /\ ~Wrote(p) /\ StoreAsFound(i)
       /\ \A k \in 1..Len(p.log) :
            p.log[k] \in WritePcs => \E h \in 1..(k - 1) : p.log[h] = "fetch.ok"

\* a request that ended with upstream_error on a session that holds an
\* earlier turn
C21_Witness ==
  \E i \in DOMAIN run :
    /\ run[i].response = UpstreamErrorResponse
    /\ llen(redis, keySTB(run[i].body.core_id, run[i].body.session_id)) > 0

\* C22: a chat request whose body lacks core_id, session_id or the message
\* is answered bad_request before any call to the store, the token oracle,
\* the embedding provider or the completion provider.
C22_BadRequestBeforeAnyCall ==
  \A i \in DOMAIN run :
    (run[i].pc # "idle" /\ run[i].missing) =>
      /\ run[i].pc = "done" /\ run[i].response = BadRequestResponse
      /\ run[i].log = <<>> /\ StoreAsFound(i)

\* a request without a message, rejected on a session that holds a turn
C22_Witness ==
  \E i \in DOMAIN run :
    /\ run[i].response = BadRequestResponse
    /\ ~Has(run[i].body, "user_message") /\ ~Has(run[i].body, "prompt")
    /\ \E k \in Keys : redis[k] # Absent

\* C23: when the token oracle fails to give a count at any step of the
\* ladder the request fails: no payload, no completion call, nothing
\* written; buildPrompt never goes on with a count the oracle did not give.
C23_TokenCountFailureIsFatal ==
  \A i \in DOMAIN run :
    LET p == run[i]
    IN (InLog(p, "count.failed") \/ InLog(p, "count.nofield")) =>
         /\ p.pc = "done" /\ p.response.status = 500
         /\ ~InLog(p, "fetch.ok") /\ ~InLog(p, "fetch.error")
         /\ ~Wrote(p) /\ StoreAsFound(i)

\* C24: when a store call fails in the persistence sequence the request
\* fails and nothing of the turn is left: STB, LTM and Summary are as the
\* request found them.
C24_StoreFailureLeavesNoPartialCommit ==
  \A i \in DOMAIN run :
    (run[i].cause = "store" /\ InLog(run[i], "fetch.ok")) =>
      /\ run[i].response.status = 500
      /\ StoreAsFound(i)

\* C25: when the completion succeeded and a persistence step failed, the
\* response differs from success and from upstream_error, carries the
\* reply that was generated and warns that it was not persisted.
C25_ReplySurfacedWithWarning ==
  \A i \in DOMAIN run :
    (run[i].cause = "store" /\ InLog(run[i], "fetch.ok")) =>
      /\ run[i].response.status \notin {200, 502}
      /\ run[i].response.reply = ContentText(run[i].assistantEntry)
      /\ run[i].response.warning

\* C26: every chat request ends: a completion call or a token-counting
\* call that is never answered is cut off, and the request ends with
\* upstream_error.
C26_EveryRequestEnds ==
  \A i \in 1..MaxReq : (run[i].pc # "idle") ~> (run[i].pc = "done")

\* the step a call belongs to
PhaseOf(call) ==
  CASE call \in {"reads", "count", "count.nofield", "count.failed"} -> "prompt"
    [] call \in {"fetch.ok", "fetch.error"} -> "complete"
    [] call \in AppendPcs -> "append"
    [] call \in TrimPcs -> "trim"
    [] call \in RolloverPcs \cup {"ro_embed"} -> "rollover"
    [] call \in SummaryPcs -> "summary"

Rank(phase) ==
  CASE phase = "prompt" -> 0 [] phase = "complete" -> 1 [] phase = "append" -> 2
    [] phase = "trim" -> 3 [] phase = "rollover" -> 4 [] phase = "summary" -> 5

\* the calls a step can end with
LastCalls(phase) ==
  CASE phase = "prompt" -> {"count", "count.nofield"}
    [] phase = "complete" -> {"fetch.ok"}
    [] phase = "append" -> {"ap_expire"}
    [] phase = "trim" -> {"tr_expire"}
    [] phase = "rollover" -> {"ro_llen", "ro_expire", "la_expire"}
    [] phase = "summary" -> {"su_get", "su_expire"}

\* C27: within a request the persistence steps run in the order STB
\* append (with its trim), rollover, summary refresh, each one finished
\* before the next begins, and none begins before the completion call has
\* returned with success.
C27_PersistenceInOrder ==
  \A i \in DOMAIN run :
    LET log == run[i].log
    IN /\ \A k \in 2..Len(log) :
            LET a == PhaseOf(log[k - 1])
                b == PhaseOf(log[k])
            IN /\ Rank(a) <= Rank(b)
               /\ (a # b /\ Rank(b) >= 2) =>
                    Rank(b) = Rank(a) + 1 /\ log[k - 1] \in LastCalls(a)
       /\ \A k \in 1..Len(log) :
            Rank(PhaseOf(log[k])) >= 2 => \E h \in 1..(k - 1) : log[h] = "fetch.ok"
       /\ run[i].response.status = 200 =>
            \A ph \in {"append", "trim", "rollover", "summary"} :
              \E k \in 1..Len(log) : PhaseOf(log[k]) = ph /\ log[Len(log)] \in LastCalls("summary")

\* a turn that appended, moved entries to LTM and wrote the summary
C27_Witness ==
  \E i \in DOMAIN run :
    /\ run[i].response.status = 200
    /\ InLog(run[i], "la_rpush") /\ InLog(run[i], "su_set")

\* ------------------------------------------- claims on concurrent turns
\* every request received has been answered
AtRest == \A i \in DOMAIN run : run[i].pc \in {"idle", "done"}

\* C30: when chat turns on one session have run concurrently, in any
\* interleaving of their store calls, and all have completed, STB has at
\* most STB_MAX_ITEMS items (STB_MAX_ITEMS >= 1).
C30_STBBoundedAfterConcurrentTurns ==
  (AtRest /\ STB_MAX_ITEMS >= 1) =>
    \A k \in STBKeys : llen(redis, k) <= STB_MAX_ITEMS

\* two turns completed and one of them found STB over capacity in its
\* rollover, which happens only when their calls interleave
C30_Witness ==
  /\ AtRest /\ STB_MAX_ITEMS >= 1
  /\ \A i \in 1..MaxReq : run[i].response.status = 200
  /\ \E i \in 1..MaxReq : InLog(run[i], "la_rpush")
  /\ llen(redis, keySTB(SomeSession[1], SomeSession[2])) = STB_MAX_ITEMS

\* ------------------------------------ claims on races between two turns
Count(seq, e) == Cardinality({k \in 1..Len(seq) : seq[k] = e})

\* the turns that were answered with their reply
Succeeded == {i \in DOMAIN run : run[i].response.status = 200}

\* the entries of turn i
TurnEntries(i) == {run[i].userEntry, run[i].assistantEntry}

StbOf(i) == Carried(redis, keySTB(run[i].body.core_id, run[i].body.session_id))
LtmOf(i) == Carried(redis, keyLTM(run[i].body.core_id, run[i].body.session_id))

\* an entry of turn i is in LTM more than once, or in STB and in LTM
Duplicated(i) ==
  \E e \in TurnEntries(i) :
    \/ Count(LtmOf(i), e) > 1
    \/ Count(LtmOf(i), e) >= 1 /\ Count(StbOf(i), e) >= 1

\* an entry of turn i is in neither STB nor LTM
Lost(i) == \E e \in TurnEntries(i) : Count(LtmOf(i), e) = 0 /\ Count(StbOf(i), e) = 0

NoOverlap == \A i \in DOMAIN run : ~run[i].overlap

\* C31: two turns that run concurrently on a session can interleave so
\* that conservation is broken (the witness is such an interleaving: an
\* entry ends up both in STB and in LTM); turns that do not overlap never
\* leave an entry archived twice or in both lists.
C31_DuplicateRolloverNeedsOverlap ==
  (AtRest /\ NoOverlap) => \A i \in Succeeded : ~Duplicated(i)

\* both turns completed, the rollover of one archived an entry that is
\* still in STB
C31_Witness ==
  /\ AtRest /\ Succeeded = 1..MaxReq
  /\ \E i \in Succeeded : run[i].overlap /\ Duplicated(i)

\* the fact lines a summary text holds
FactCount(text) == Cardinality({k \in 1..Len(text) : text[k].b /\ text[k].t # "(none yet)"})

SummaryOf(i) == readSummary(redis, keySUM(run[i].body.core_id, run[i].body.session_id))

\* C32: the summary refresh is an unguarded read-modify-write: two
\* concurrent turns can both read the same previous summary, and then the
\* stored summary holds the facts of one of them only (the witness); when
\* the turns do not overlap the summary holds one fact line per turn.
C32_SummaryLosesFactsOnlyOnOverlap ==
  (AtRest /\ NoOverlap) => \A i \in Succeeded : FactCount(SummaryOf(i)) = Cardinality(Succeeded)

\* both turns wrote the summary and one fact line is stored
C32_Witness ==
  /\ AtRest /\ Succeeded = 1..MaxReq
  /\ \A i \in Succeeded : InLog(run[i], "su_set")
  /\ \E i \in Succeeded : run[i].overlap /\ FactCount(SummaryOf(i)) = 1

\* C33: rollover appends the overflow entries to LTM before it trims them
\* out of STB: at every point of a rollover that has read its overflow
\* entries, each of them is in STB or in LTM.
C33_OverflowNeverInNeither ==
  \A i \in DOMAIN run :
    run[i].pc \in {"ro_tr_type", "ro_ltrim", "ro_expire", "ro_embed", "la_type", "la_rpush",
                   "la_expire"} =>
      \A e \in Range(WithoutEmb(EntriesOfList(run[i].toMove))) :
        Count(StbOf(i), e) + Count(LtmOf(i), e) >= 1

\* -------------------------------------------------- a turn on aged keys
\* a store whose keys were last refreshed a second ago
Aged(r) ==
  [key \in Keys |->
     IF r[key].type = "none" THEN r[key]
     ELSE [r[key] EXCEPT !.ttl = HISTORY_TTL_SECONDS - 1]]

InitAged ==
  /\ TunablesInit
  /\ \E stb \in ListsUpTo(RestLength), ltm \in ListsUpTo(1),
        summary \in {<<>>, SummaryHead} : redis = Aged(StoreWith(stb, ltm, summary))
  /\ clock = 2 * MaxTurns - 2
  /\ last = NoRequest
  /\ appended = [key \in STBKeys |-> <<>>]
  /\ pre = [key \in Keys |-> Absent]
  /\ bp = Idle
  /\ run = <<>>
  /\ ProxiesIdle

NextAged ==
  \E req \in Requests, a \in Replies : ChatTurn(SomeSession[1], SomeSession[2], req, a)

SpecAged == InitAged /\ [][NextAged]_vars

\* C34: a successful chat turn sets the expiry of the session's STB, LTM
\* and Summary keys to the full TTL.
C34_TurnRefreshesAllExpiries ==
  (last.kind = "chat" /\ last.status = 200) =>
    \A k \in KeysOf(last.session) :
      redis[k].type # "none" => redis[k].ttl = HISTORY_TTL_SECONDS

\* ------------------------------------- the memory tiers left untouched
memory == <<redis, clock, last, appended, pre, tunables, bp, run>>

MemoryIdle ==
  /\ STB_MAX_ITEMS = MaxCap
  /\ RECALL_TOP_K = MaxTopK
  /\ LTM_SCAN_LIMIT = MaxList
  /\ TOKEN_BUDGET = MaxTok
  /\ MAX_OUTPUT_TOKENS = 2
  /\ OPENAI_API_KEY = FALSE
  /\ redis = [key \in Keys |-> Absent]
  /\ clock = 0
  /\ last = NoRequest
  /\ appended = [key \in STBKeys |-> <<>>]
  /\ pre = [key \in Keys |-> Absent]
  /\ bp = Idle
  /\ run = <<>>

\* ---------------------------------------- POST /v1/messages, streamed
\* one server-sent event; index is -1 for the events that carry none
sendSSE(s, event, index, kind) ==
  [s EXCEPT !.sent = Append(@, [event |-> event, index |-> index, type |-> kind])]

sendSuccessMessage(s) ==
  IF s.isSucceeded THEN s
  ELSE sendSSE(sendSSE([s EXCEPT !.isSucceeded = TRUE], "message_start", -1, "message"),
               "ping", -1, "ping")

\* the arguments text of a tool call, as a sequence of fragments
ArgTexts == {<<>>, <<"{">>, <<"{", "}">>}

ToolCalls == [index : ToolIndexes, arguments : ArgTexts]

\* the delta of a data chunk: tool_calls is read only when present
Deltas ==
  {[present |-> {"tool_calls"}, tool_calls |-> <<tc>>] : tc \in ToolCalls}
    \cup {[present |-> {"tool_calls"}, tool_calls |-> <<tc, [tc EXCEPT !.index = MaxToolIndex]>>] :
             tc \in {t \in ToolCalls : t.arguments = <<>>}}
    \cup {[present |-> {"tool_calls", "content"}, tool_calls |-> <<>>],
          [present |-> {"content"}, tool_calls |-> <<>>],
          [present |-> {"reasoning"}, tool_calls |-> <<>>],
          [present |-> {"content", "reasoning"}, tool_calls |-> <<>>],
          [present |-> {}, tool_calls |-> <<>>]}

\* one element of delta.tool_calls
OnToolCall(s, toolCall) ==
  LET idx == toolCall.index
      s1 == [s EXCEPT !.encounteredToolCall = TRUE]
      s2 == IF ~s1.toolCallAccumulators[idx].defined
            THEN sendSSE([s1 EXCEPT !.toolCallAccumulators[idx] =
                                      [defined |-> TRUE, args |-> <<>>]],
                         "content_block_start", idx, "tool_use")
            ELSE s1
      newArgs == toolCall.arguments
      oldArgs == s2.toolCallAccumulators[idx].args
  IN  IF Len(newArgs) > Len(oldArgs)
      THEN [sendSSE(s2, "content_block_delta", idx, "input_json_delta")
              EXCEPT !.toolCallAccumulators[idx].args = newArgs]
      ELSE s2

RECURSIVE OnToolCalls(_, _)
OnToolCalls(s, calls) ==
  IF calls = <<>> THEN s ELSE OnToolCalls(OnToolCall(s, Head(calls)), Tail(calls))

\* delta.content and delta.reasoning both go to block 0
OnText(s, kind) ==
  LET s1 == IF ~s.textBlockStarted
            THEN sendSSE([s EXCEPT !.textBlockStarted = TRUE],
                         "content_block_start", 0, "text")
            ELSE s
  IN  sendSSE(s1, "content_block_delta", 0, kind)

OnDelta(s, delta) ==
  IF "tool_calls" \in delta.present THEN OnToolCalls(s, delta.tool_calls)
  ELSE IF "content" \in delta.present THEN OnText(s, "text_delta")
  ELSE IF "reasoning" \in delta.present THEN OnText(s, "thinking_delta")
  ELSE s

\* for (const idx in toolCallAccumulators): the keys in ascending order
RECURSIVE StopToolBlocks(_, _)
StopToolBlocks(s, idx) ==
  IF idx > MaxToolIndex THEN s
  ELSE StopToolBlocks(IF s.toolCallAccumulators[idx].defined
                      THEN sendSSE(s, "content_block_stop", idx, "stop")
                      ELSE s,
                      idx + 1)

\* the line "data: [DONE]"
OnDone(s) ==
  LET closed == IF s.encounteredToolCall THEN StopToolBlocks(s, 0)
                ELSE IF s.textBlockStarted
                     THEN sendSSE(s, "content_block_stop", 0, "stop")
                     ELSE s
      stopReason == IF s.encounteredToolCall THEN "tool_use" ELSE "end_turn"
  IN  [sendSSE(sendSSE(closed, "message_delta", -1, stopReason),
               "message_stop", -1, "message_stop")
         EXCEPT !.pc = "ended"]

\* the upstream answered 2xx to a request with stream: true
Messages ==
  /\ sse.pc = "idle"
  /\ sse' = [sse EXCEPT !.pc = "reading"]
  /\ UNCHANGED <<memory, toolLoop, rl>>

Reading == sse.pc = "reading" /\ sse.read < MaxLines

\* a blank line, a comment or any line that does not start with data:
SkipLine ==
  /\ Reading
  /\ sse' = [sse EXCEPT !.read = @ + 1]
  /\ UNCHANGED <<memory, toolLoop, rl>>

DataLine(delta) ==
  /\ Reading
  /\ sse' = [OnDelta(sendSuccessMessage(sse), delta) EXCEPT !.read = @ + 1]
  /\ UNCHANGED <<memory, toolLoop, rl>>

\* a data line whose JSON carries error: the handler throws, the catch
\* answers 500
ErrorLine ==
  /\ Reading
  /\ sse' = [sse EXCEPT !.read = @ + 1, !.pc = "failed"]
  /\ UNCHANGED <<memory, toolLoop, rl>>

DoneLine ==
  /\ Reading
  /\ sse' = [OnDone(sse) EXCEPT !.read = @ + 1]
  /\ UNCHANGED <<memory, toolLoop, rl>>

\* the reader reports done: reply.raw.end() after the loop
EndOfStream ==
  /\ sse.pc = "reading"
  /\ sse' = [sse EXCEPT !.pc = "ended"]
  /\ UNCHANGED <<memory, toolLoop, rl>>

InitStream ==
  /\ MemoryIdle
  /\ ProxiesIdle

NextStream ==
  \/ Messages
  \/ SkipLine
  \/ \E delta \in Deltas : DataLine(delta)
  \/ ErrorLine
  \/ DoneLine
  \/ EndOfStream

SpecStream == InitStream /\ [][NextStream]_vars

Sent(event) == {k \in DOMAIN sse.sent : sse.sent[k].event = event}

BodyEvents ==
  {"content_block_start", "content_block_delta", "content_block_stop",
   "message_delta", "message_stop"}

\* C35: in a streamed /v1/messages response message_start is sent at most
\* once, and every content_block_start, content_block_delta,
\* content_block_stop, message_delta and message_stop comes after it.
C35_MessageStartOnceAndFirst ==
  /\ Cardinality(Sent("message_start")) <= 1
  /\ \A k \in DOMAIN sse.sent :
       sse.sent[k].event \in BodyEvents => \E j \in Sent("message_start") : j < k

SentAt(event, idx) == {k \in Sent(event) : sse.sent[k].index = idx}

Opened == {sse.sent[k].index : k \in Sent("content_block_start")}

\* C36: when the stream ends with message_stop, every block index that was
\* opened was opened once and closed by exactly one content_block_stop
\* before message_delta.
C36_BlocksOpenedOnceClosedOnce ==
  Sent("message_stop") # {} =>
    \A idx \in Opened :
      /\ Cardinality(SentAt("content_block_start", idx)) = 1
      /\ Cardinality(SentAt("content_block_stop", idx)) = 1
      /\ \A k \in SentAt("content_block_stop", idx), m \in Sent("message_delta") : k < m

\* ------------------------- POST /v1/chat/completions, non-stream branch
\* the content blocks of one completion: tool_use, a text block with text,
\* a text block with empty text
BlockKinds == {"tool_use", "text", "empty"}

Completions == UNION {[1..n -> BlockKinds] : n \in 0..MaxBlocks}

ToolUses(blocks) == Cardinality({k \in DOMAIN blocks : blocks[k] = "tool_use"})

RECURSIVE TextBuf(_)
TextBuf(blocks) ==
  IF blocks = <<>> THEN <<>>
  ELSE (IF Head(blocks) = "text" THEN <<"text">> ELSE <<>>) \o TextBuf(Tail(blocks))

\* the condition of the for loop
LoopContinues_inclusive(i) == i <= maxToolIterations

LoopContinues(i) == i < maxToolIterations

\* the request reaches the non-stream branch; WEB_SEARCH_ENABLED is read
ChatCompletions(enabled) ==
  /\ toolLoop.pc = "idle"
  /\ toolLoop' = [toolLoop EXCEPT !.pc = "loop", !.toolsEnabled = enabled,
                                  !.convo = <<"user">>]
  /\ UNCHANGED <<memory, sse, rl>>

\* one pass of the loop body up to the tools: the completion call and the
\* scan of its blocks
CallAnthropic(blocks) ==
  /\ toolLoop.pc = "loop"
  /\ LoopContinues(toolLoop.i)
  /\ toolLoop' =
       IF ToolUses(blocks) > 0 /\ toolLoop.toolsEnabled
       THEN [toolLoop EXCEPT !.calls = @ + 1, !.wanted = TRUE,
                             !.toolCalls = ToolUses(blocks),
                             !.convo = Append(@, "assistant"), !.pc = "tools"]
       ELSE [toolLoop EXCEPT !.calls = @ + 1, !.wanted = ToolUses(blocks) > 0,
                             !.finalText = TextBuf(blocks), !.pc = "after"]
  /\ UNCHANGED <<memory, sse, rl>>

\* the completion call throws (non-2xx, timeout): nothing in the branch
\* catches it, the framework answers with an error
CallAnthropicFails ==
  /\ toolLoop.pc = "loop"
  /\ LoopContinues(toolLoop.i)
  /\ toolLoop' = [toolLoop EXCEPT !.calls = @ + 1, !.pc = "failed"]
  /\ UNCHANGED <<memory, sse, rl>>

\* one requested tool runs (or throws, which is caught): its result is
\* pushed; after the last one the loop continues with i + 1
ExecuteTool ==
  /\ toolLoop.pc = "tools"
  /\ toolLoop' =
       IF toolLoop.toolCalls > 1
       THEN [toolLoop EXCEPT !.toolCalls = @ - 1, !.convo = Append(@, "user")]
       ELSE [toolLoop EXCEPT !.toolCalls = 0, !.convo = Append(@, "user"),
                             !.i = @ + 1, !.pc = "loop"]
  /\ UNCHANGED <<memory, sse, rl>>

\* after the loop: text = finalText || "", history, reply.send
ReplyCompletion ==
  /\ \/ toolLoop.pc = "after"
     \/ toolLoop.pc = "loop" /\ ~LoopContinues(toolLoop.i)
  /\ toolLoop' = [toolLoop EXCEPT !.text = toolLoop.finalText, !.pc = "replied"]
  /\ UNCHANGED <<memory, sse, rl>>

InitLoop ==
  /\ MemoryIdle
  /\ ProxiesIdle

NextLoop ==
  \/ \E enabled \in BOOLEAN : ChatCompletions(enabled)
  \/ \E blocks \in Completions : CallAnthropic(blocks)
  \/ CallAnthropicFails
  \/ ExecuteTool
  \/ ReplyCompletion

SpecLoop == InitLoop /\ [][NextLoop]_vars

\* C37: the non-stream tool loop makes at most 6 completion calls for one
\* request; when the model still asks for tools (with tools enabled) in the
\* response the handler replies after, that was the 6th call and the reply
\* carries empty assistant text.
C37_AtMostSixCompletionCalls ==
  /\ toolLoop.calls <= maxToolIterations
  /\ (toolLoop.pc = "replied" /\ toolLoop.wanted /\ toolLoop.toolsEnabled) =>
       (toolLoop.calls = maxToolIterations /\ toolLoop.text = <<>>)

C37_Witness ==
  /\ toolLoop.pc = "replied"
  /\ toolLoop.wanted
  /\ toolLoop.toolsEnabled
  /\ toolLoop.calls = maxToolIterations

\* ------------------------------------ POST /v1/complete, rate limiting
\* the durations by which the time moves between two steps
TickSteps == {5, 30}

\* time passes; a key whose expiry has come is gone
Tick(d) ==
  /\ rl.now + d <= MaxSeconds
  /\ rl' = [rl EXCEPT !.now = @ + d,
                      !.store = [key \in RateKeys |->
                                   IF @[key].expires > 0 /\ @[key].expires <= rl.now + d
                                   THEN [count |-> 0, expires |-> 0]
                                   ELSE @[key]]]
  /\ UNCHANGED <<memory, sse, toolLoop>>

\* what the handler does with the answer of rateLimitMinute
AfterLimit(client, count) ==
  IF count > rl.limit
  THEN [client EXCEPT !.count = count, !.outcome = "rate_limited", !.pc = "done"]
  ELSE [client EXCEPT !.count = count, !.outcome = "admitted", !.pc = "serve"]

\* the request arrives: content type check, then rateLimitMinute builds
\* its key from the address and the current minute and sends INCR
Arrive(c, ip, json) ==
  /\ rl.req[c].pc = "idle"
  /\ \A b \in 1..(c - 1) : rl.req[b].pc # "idle"
  /\ rl' = [rl EXCEPT !.req[c] =
               IF json THEN [@ EXCEPT !.key = RateKey(ip, rl.now), !.pc = "incr"]
               ELSE [@ EXCEPT !.key = RateKey(ip, rl.now), !.outcome = "non-json",
                              !.pc = "done"]]
  /\ UNCHANGED <<memory, sse, toolLoop>>

\* INCR reaches the store; unless the count is 1 the function returns
Incr(c) ==
  /\ rl.req[c].pc = "incr"
  /\ LET key == rl.req[c].key
         count == rl.store[key].count + 1
     IN  rl' = [rl EXCEPT !.store[key].count = count,
                          !.req[c] = IF count = 1
                                     THEN [@ EXCEPT !.count = count, !.pc = "expire"]
                                     ELSE AfterLimit(@, count)]
  /\ UNCHANGED <<memory, sse, toolLoop>>

\* EXPIRE reaches the store (a key that is gone stays gone)
Expire(c) ==
  /\ rl.req[c].pc = "expire"
  /\ LET key == rl.req[c].key
     IN  rl' = [rl EXCEPT !.store[key].expires =
                            IF rl.store[key].count = 0 THEN 0
                            ELSE rl.now + EXPIRE_SECONDS,
                          !.req[c] = AfterLimit(@, @.count)]
  /\ UNCHANGED <<memory, sse, toolLoop>>

\* a store command is rejected: the catch answers "CORE error"
RateStoreFails(c) ==
  /\ rl.req[c].pc \in {"incr", "expire"}
  /\ rl' = [rl EXCEPT !.req[c] = [@ EXCEPT !.outcome = "failed", !.pc = "done"]]
  /\ UNCHANGED <<memory, sse, toolLoop>>

\* an admitted request goes on: history read, completion call, reply
Serve(c) ==
  /\ rl.req[c].pc = "serve"
  /\ rl' = [rl EXCEPT !.req[c] = [@ EXCEPT !.history = TRUE, !.completion = TRUE,
                                          !.pc = "done"]]
  /\ UNCHANGED <<memory, sse, toolLoop>>

InitRate ==
  /\ MemoryIdle
  /\ sse = NoStream
  /\ toolLoop = NoLoop
  /\ \E limit \in 1..MaxLimit : rl = [NoLimiter EXCEPT !.limit = limit]

NextRate ==
  \/ \E d \in TickSteps : Tick(d)
  \/ \E c \in 1..MaxClients, ip \in IPs, json \in BOOLEAN : Arrive(c, ip, json)
  \/ \E c \in 1..MaxClients : Incr(c)
  \/ \E c \in 1..MaxClients : Expire(c)
  \/ \E c \in 1..MaxClients : RateStoreFails(c)
  \/ \E c \in 1..MaxClients : Serve(c)

SpecRate == InitRate /\ [][NextRate]_vars

AdmittedFor(key) ==
  {c \in 1..MaxClients : rl.req[c].key = key /\ rl.req[c].outcome = "admitted"}

\* C38: for each client address and each minute at most `limit` requests
\* are admitted, and a request reported as rate-limited reads no session
\* history and makes no completion call.
C38_AtMostLimitPerWindow ==
  /\ \A key \in RateKeys : Cardinality(AdmittedFor(key)) <= rl.limit
  /\ \A c \in 1..MaxClients :
       rl.req[c].outcome = "rate_limited" =>
         ~rl.req[c].history /\ ~rl.req[c].completion

====
